---- MODULE Spec2Model ----
(***************************************************************************)
(* Model of the portrait generation orchestrators of PortraitGenerator:    *)
(* PortraitGenerator (core/generator.py, sequential over styles) and       *)
(* EnhancedPortraitGenerator (core/generator_enhanced.py, one pool worker  *)
(* per style, bounded retry around the image backend), driven by           *)
(* generate_batch over a list of subject names.                            *)
(***************************************************************************)
EXTENDS Integers, Sequences, FiniteSets, TLC

\* ------------------------------------------------------------------ bounds
MaxStyles == 2          \* longest styles list passed to generate_portrait
MaxBatch == 3           \* longest subject_names list passed to generate_batch
MaxRefs == 1            \* most reference images find_reference_images returns
MaxAttemptsBound == 2   \* largest max_generation_attempts explored (code allows 1..5)
MaxFaults == 1          \* most calls the environment makes raise in one run
MaxPoolStyles == 5      \* longest styles list handed to the worker pool
MaxIssues == 2           \* most blocking issues the validator's own checks report
MaxWarnings == 10       \* most warnings the validator's checks report
MaxWords == 2           \* most words in a grounded answer
MaxNameLen == 2          \* longest subject name whose file name is computed
MaxCalls == 3           \* most calls of the style transforms in one run

\* ------------------------------------------------------- program constants
DefaultAttempts == 2    \* max_attempts when no model profile is configured
PoolCap == 4            \* min(4, len(styles)) worker threads
ErrTruncLen == 100      \* error[:100] in _refine_prompt_for_retry
IssuePenalty == 25      \* confidence -= len(issues) * 0.25, in hundredths
WarningPenalty == 5     \* confidence -= len(warnings) * 0.05
FactCheckPenalty == 15  \* confidence -= failed_checks * 0.15
ConfidenceThreshold == 50  \* is_valid needs confidence > 0.5
FactQueries == 3        \* birth year, death year, era

STYLES == <<"BW", "Sepia", "Color", "Painting">>

StyleSet == {STYLES[i] : i \in DOMAIN STYLES}

None == <<>>

Min(a, b) == IF a < b THEN a ELSE b

Range(s) == {s[i] : i \in DOMAIN s}

Take(s, n) == SubSeq(s, 1, Min(n, Len(s)))

\* ------------------------------------------------------- characters, names
LowerChars == {"a", "b", "e", "é"}
UpperChars == {"A", "B", "E", "É"}
SpaceChars == {" "}
AsciiChars == {"a", "b", "e", "A", "B", "E", " ", "-", "_"}

IsAlnum(c) == c \in LowerChars \cup UpperChars

IsSpace(c) == c \in SpaceChars

Upper(c) == IF c = "a" THEN "A" ELSE IF c = "b" THEN "B" ELSE IF c = "e" THEN "E"
            ELSE IF c = "é" THEN "É" ELSE c

Lower(c) == IF c = "A" THEN "a" ELSE IF c = "B" THEN "b" ELSE IF c = "E" THEN "e"
            ELSE IF c = "É" THEN "é" ELSE c

\* str.strip() is empty: the name has no character that is not whitespace
IsBlank(name) == \A i \in DOMAIN name : IsSpace(name[i])

\* "".join(c for c in name if c.isalnum() or c.isspace())
RECURSIVE CleanName(_)
CleanName(name) ==
    IF name = <<>> THEN <<>>
    ELSE LET c == Head(name)
         IN  (IF IsAlnum(c) \/ IsSpace(c) THEN <<c>> ELSE <<>>) \o CleanName(Tail(name))

\* "".join(word.capitalize() for word in clean.split()): the first character
\* of each whitespace-separated word upper-cased, the rest lower-cased
RECURSIVE PascalCase(_, _)
PascalCase(clean, atWordStart) ==
    IF clean = <<>> THEN <<>>
    ELSE LET c == Head(clean)
         IN  IF IsSpace(c) THEN PascalCase(Tail(clean), TRUE)
             ELSE <<(IF atWordStart THEN Upper(c) ELSE Lower(c))>>
                      \o PascalCase(Tail(clean), FALSE)

\* _create_filename(name, style): f"{filename}_{style}"
CreateFilename(name, style) == PascalCase(CleanName(name), TRUE) \o <<"_", style>>

\* unicodedata.normalize('NFKD', c).encode('ascii', 'ignore'): an accented
\* letter decomposes into its ASCII base letter and a combining mark, which
\* is dropped; ASCII stays; anything else is dropped
Transliterate(c) ==
    IF c \in AsciiChars THEN <<c>>
    ELSE IF c = "é" THEN <<"e">> ELSE IF c = "É" THEN <<"E">> ELSE <<>>

\* sanitize_filename (utils/validators.py): transliterate, remove spaces, keep
\* [a-zA-Z0-9-_], upper-case the first character
RECURSIVE SanitizeChars(_)
SanitizeChars(name) ==
    IF name = <<>> THEN <<>>
    ELSE SelectSeq(Transliterate(Head(name)),
                   LAMBDA c : c # " " /\ (c \in AsciiChars \ {" "}))
             \o SanitizeChars(Tail(name))

SanitizeFilename(name) ==
    LET kept == SanitizeChars(name)
    IN  IF kept = <<>> THEN <<>> ELSE <<Upper(kept[1])>> \o Tail(kept)

ImagePath(name, style) == [dir |-> "out", base |-> CreateFilename(name, style), ext |-> "png"]

PromptPath(name, style) == [dir |-> "out", base |-> CreateFilename(name, style) \o <<"_prompt">>, ext |-> "md"]

\* self.download_dir / f"ref_{i+1}.{format}"
Digits == <<"1", "2", "3", "4", "5">>

RefPath(i) == [dir |-> "refs", base |-> <<"ref_", Digits[i]>>, ext |-> "img"]

\* ------------------------------------------------------------ error texts
ShortErr == <<"q", "u", "o", "t", "a">>

LongErr == [i \in 1..(ErrTruncLen + 3) |-> IF i <= ErrTruncLen THEN "x" ELSE "y"]

BackendErrors == {ShortErr, LongErr}

StageErr(stage) == <<stage, " ", "failed">>

\* raise RuntimeError(f"Failed to generate {style} version: {e}") from e
WrapVersion(style, e) == <<"Failed to generate ", style, " version: ">> \o e

\* error_msg = f"Failed to generate {style} portrait: {e}"
WrapPortrait(style, e) == <<"Failed to generate ", style, " portrait: ">> \o e

\* error_msg = f"Portrait generation failed: {e}"
WrapGeneration(e) == <<"Portrait generation failed: ">> \o e

ResearchErr(name) == <<"Failed to research subject ">> \o name

EmptyNameErr == <<"Subject name cannot be empty">>

InvalidStylesErr == <<"Invalid styles">>

\* ------------------------------------------------------------ prompt texts
\* _build_prompt_enhanced / _create_prompt: text naming the style and subject
BuildPrompt(name, style) == <<"Generate a ", style, " portrait of ">> \o name

RefinementMutant(original_prompt, error) ==
    <<"RETRY REFINEMENT: ">> \o error \o <<" Please address this issue. ">> \o original_prompt

\* _refine_prompt_for_retry: refinement + original_prompt
RefinePromptForRetry(original_prompt, error) ==
    <<"RETRY REFINEMENT: ">> \o Take(error, ErrTruncLen) \o <<" Please address this issue. ">>
        \o original_prompt

\* ------------------------------------------------------------------- state
VARIABLES
    cfg,          \* the generator: variant and the model profile's generation settings
    req,          \* generate_batch(subject_names, force_regenerate, styles)
    mpc,          \* position of the calling thread
    idx,          \* index of the subject generate_batch is processing
    results,      \* generate_batch's results list
    subject_data, \* name of the researched SubjectData, None before research
    refs,         \* len(reference_images) of the current call
    refLocal,     \* indices of the shared ReferenceImage objects whose local_path is set
    wk,           \* per style index: the style's pipeline (a pool worker in the enhanced generator)
    files, prompts, evaluations, errors,  \* locals of generate_portrait
    fs,           \* filesystem: path -> [mtime, data]; mtime counts the writes of the file
    faults,       \* number of calls that have raised so far (collaborator failures)
    env,          \* the collaborators: how many calls may raise, the backend's error texts,
                  \* how many images the reference search can return, what the validator finds
    wrote,        \* history: resource -> workers that wrote it during the current call
    fs0,          \* history: filesystem when the current call started
    mtrace,       \* history: the steps of the current call on the calling thread
    registry,     \* MODEL_PROFILES: model name -> ModelProfile, one shared object per model
    cm,           \* the CompatibilityManager built last
    ret,          \* the last call on the registry, the manager or an evaluator and how it ended
    ev,           \* the evaluator under test, the image handed to it and what the model answers
    heap,         \* the image objects the style transforms are applied to, by identity
    calls,        \* history: the calls of the style transforms so far
    hist          \* history: per finished call, what its pipelines did

generatorVars == <<cfg, req, mpc, idx, results, subject_data, refs, refLocal, wk, files, prompts,
                   evaluations, errors, fs, faults, wrote, fs0, mtrace, hist, env>>

\* the parts that are also exercised on their own: registry, evaluators, transforms
partVars == <<registry, cm, ret, ev, heap, calls>>

vars == <<generatorVars, partVars>>

callVars == <<subject_data, refs, refLocal, wk, files, prompts, evaluations, errors>>

NoWorkers == <<>>

EmptyMap == <<>>

\* ----------------------------------------------------------- configuration
BasicCfg == [variant |-> "basic", max_attempts |-> 1, smart_retry |-> FALSE,
             finder |-> FALSE, preflight |-> FALSE]

\* the gemini-3 profile, Settings.max_generation_attempts overriding the attempts
AdvancedCfg(n) == [variant |-> "enhanced", max_attempts |-> n, smart_retry |-> TRUE,
                   finder |-> TRUE, preflight |-> TRUE]

\* the same profile with enable_advanced_features = False
PlainSmartCfg(n) == [variant |-> "enhanced", max_attempts |-> n, smart_retry |-> TRUE,
                     finder |-> FALSE, preflight |-> FALSE]

\* gemini-exp-1206 / gemini-2.0-flash-exp
LegacyCfg(n) == [variant |-> "enhanced", max_attempts |-> n, smart_retry |-> FALSE,
                 finder |-> FALSE, preflight |-> FALSE]

\* settings=None: no model profile
NoProfileCfg == [variant |-> "enhanced", max_attempts |-> DefaultAttempts, smart_retry |-> FALSE,
                 finder |-> FALSE, preflight |-> FALSE]

AttemptRange == 1..MaxAttemptsBound

Configs == {BasicCfg, NoProfileCfg}
             \cup {AdvancedCfg(n) : n \in AttemptRange}
             \cup {PlainSmartCfg(n) : n \in AttemptRange}
             \cup {LegacyCfg(n) : n \in AttemptRange}

SeqsUpTo(S, n) == UNION {[1..k -> S] : k \in 0..n}

\* ------------------------------------------------- pre-generation validator
\* the indicator words of _parse_verification_response, as character sequences
NegativeWords == {
    <<"i", "n", "c", "o", "r", "r", "e", "c", "t">>,
    <<"i", "n", "a", "c", "c", "u", "r", "a", "t", "e">>,
    <<"f", "a", "l", "s", "e">>,
    <<"n", "o">>,
    <<"w", "r", "o", "n", "g">>}

PositiveWords == {
    <<"c", "o", "r", "r", "e", "c", "t">>,
    <<"a", "c", "c", "u", "r", "a", "t", "e">>,
    <<"v", "e", "r", "i", "f", "i", "e", "d">>,
    <<"y", "e", "s">>,
    <<"c", "o", "n", "f", "i", "r", "m", "e", "d">>}

\* str.lower() on the letters the responses are written with
ResponseLower(response) ==
    [i \in DOMAIN response |->
        IF response[i] = "Y" THEN "y" ELSE IF response[i] = "N" THEN "n" ELSE IF response[i] = "I" THEN "i" ELSE IF response[i] = "C" THEN "c" ELSE IF response[i] = "V" THEN "v" ELSE response[i]]

\* word in response_lower: substring search
Contains(text, word) ==
    \E i \in 0..(Len(text) - Len(word)) : SubSeq(text, i + 1, i + Len(word)) = word

ParseVerificationResponseMutant(response) ==
    IF response = <<>> THEN TRUE
    ELSE IF \E word \in PositiveWords : Contains(ResponseLower(response), word) THEN TRUE
    ELSE IF \E word \in NegativeWords : Contains(ResponseLower(response), word) THEN FALSE
    ELSE TRUE

\* _parse_verification_response: None or empty is assumed valid; the negative
\* indicators are looked for first, then the affirmative ones; an uncertain
\* response is assumed valid
ParseVerificationResponse(response) ==
    IF response = <<>> THEN TRUE
    ELSE LET response_lower == ResponseLower(response)
         IN  IF \E word \in NegativeWords : Contains(response_lower, word) THEN FALSE
             ELSE IF \E word \in PositiveWords : Contains(response_lower, word) THEN TRUE
             ELSE TRUE

\* _fact_check_subject: the values of the results dictionary, in insertion
\* order. fact.mode is what the grounded client does: it has no
\* query_with_grounding ("unavailable"), it answers every query ("answers"),
\* or it raises after the answers it gave ("raised")
FactCheckSubject(fact) ==
    IF fact.mode = "unavailable" THEN <<TRUE>>
    ELSE LET parsed == [i \in DOMAIN fact.responses |->
                            ParseVerificationResponse(fact.responses[i])]
         IN  IF fact.mode = "raised" THEN Append(parsed, FALSE) ELSE parsed

\* sum(1 for v in fact_check_results.values() if not v)
FailedChecks(fact_check_results) ==
    Cardinality({i \in DOMAIN fact_check_results : ~fact_check_results[i]})

Max(a, b) == IF a > b THEN a ELSE b

CalculateConfidenceMutant(issues, warnings, fact_check_results) ==
    100 - issues * IssuePenalty - warnings * WarningPenalty
        - FailedChecks(fact_check_results) * FactCheckPenalty

\* _calculate_confidence, in hundredths: 1.0 less 0.25 per issue, 0.05 per
\* warning and 0.15 per failed fact-check, then max(0.0, min(1.0, confidence))
CalculateConfidence(issues, warnings, fact_check_results) ==
    Max(0, Min(100, 100 - issues * IssuePenalty - warnings * WarningPenalty
                        - FailedChecks(fact_check_results) * FactCheckPenalty))

\* validate: finding.issues and finding.warnings count what the data, style,
\* prompt, reference and pitfall checks report; every failed fact-check is
\* appended to the issues as "Fact-check failed: <key>"
Validate(finding) ==
    LET fact_check_results == IF finding.fact.mode = "off" THEN <<>>
                              ELSE FactCheckSubject(finding.fact)
        issues == finding.issues + FailedChecks(fact_check_results)
        warnings == finding.warnings
        confidence == CalculateConfidence(issues, warnings, fact_check_results)
    IN  [is_valid |-> issues = 0 /\ confidence > ConfidenceThreshold,
         confidence |-> confidence, issues |-> issues, warnings |-> warnings,
         fact_check_results |-> fact_check_results]

\* fact checking switched off (enable_fact_checking=False)
NoFactCheck == [mode |-> "off", responses |-> <<>>]

\* the checks find nothing
CleanFinding == [issues |-> 0, warnings |-> 0, fact |-> NoFactCheck]

\* the checks find one blocking issue
IssueFinding == [issues |-> 1, warnings |-> 0, fact |-> NoFactCheck]

\* the generator built no validator: validate is not called
NoFinding == [issues |-> 0, warnings |-> 0, fact |-> [mode |-> "none", responses |-> <<>>]]

NoValidation == [is_valid |-> TRUE, confidence |-> 100, issues |-> 0, warnings |-> 0,
                 fact_check_results |-> <<>>]

\* ------------------------------------------------------------- validation
\* not subject_name or not subject_name.strip()
InvalidName(name) == name = <<>> \/ IsBlank(name)

InvalidStylesMutant(styles) == styles # <<>> /\ styles[1] \notin StyleSet

\* set(styles) - set(self.STYLES) non-empty
InvalidStyles(styles) == Range(styles) \ StyleSet # {}

MaxWorkersMutant(styles) == Len(styles)

\* ThreadPoolExecutor(max_workers=min(4, len(styles)))
MaxWorkers(styles) == Min(PoolCap, Len(styles))

\* ---------------------------------------------------------------- results
FailedPortraitResultMutant(name, msg) ==
    [subject |-> name, files |-> EmptyMap, prompts |-> EmptyMap, evaluation |-> EmptyMap,
     success |-> TRUE, errors |-> <<msg>>]

\* the PortraitResult both generators build in their outer except clause
FailedPortraitResult(name, msg) ==
    [subject |-> name, files |-> EmptyMap, prompts |-> EmptyMap, evaluation |-> EmptyMap,
     success |-> FALSE, errors |-> <<msg>>]

\* EvaluationResult(passed=False, scores={}, issues=[error_msg], ...)
FailedEvaluation(error_msg) == [passed |-> FALSE, synthetic |-> TRUE, issues |-> <<error_msg>>]

RealEvaluation(passed) == [passed |-> passed, synthetic |-> FALSE, issues |-> <<>>]

\* success = len(files) > 0 and len(errors) == 0
Success(fl, errs) == DOMAIN fl # {} /\ Len(errs) = 0

Put(map, k, v) == [x \in DOMAIN map \cup {k} |-> IF x = k THEN v ELSE map[x]]

Count(seq, x) == Cardinality({i \in DOMAIN seq : seq[i] = x})

CurName == req.names[idx]

\* history record of a finished generate_portrait call
CallHist(raised, researched, steps) ==
    [workers |-> wk, before |-> fs0, after |-> fs, wrote |-> wrote, mtrace |-> mtrace \o steps,
     raised |-> raised, researched |-> researched]

\* generate_batch appends a result and moves to the next name
ReturnToBatch(result, h) ==
    /\ results' = Append(results, result)
    /\ hist' = Append(hist, h)
    /\ idx' = idx + 1
    /\ mpc' = "batch"
    /\ subject_data' = None
    /\ refs' = 0
    /\ refLocal' = {}
    /\ wk' = NoWorkers
    /\ files' = EmptyMap
    /\ prompts' = EmptyMap
    /\ evaluations' = EmptyMap
    /\ errors' = <<>>
    /\ wrote' = EmptyMap
    /\ fs0' = fs
    /\ mtrace' = <<>>

\* ----------------------------------------------------------------- workers
NoPath == [dir |-> "", base |-> <<>>, ext |-> ""]

NoRes == [style |-> "", file |-> NoPath, prompt |-> NoPath,
          evaluation |-> FailedEvaluation(<<>>), error |-> None]

NewWorker(style) == [pc |-> "queued", style |-> style, attempt |-> 0, prompt |-> <<>>,
                     valid |-> "unchecked", finding |-> NoFinding,
                     validation |-> NoValidation, sent |-> <<>>, trace |-> <<>>, errs |-> <<>>,
                     res |-> NoRes]

\* return style, str(file_path), str(prompt_path), evaluation, None
SuccessTuple(style, file, prompt, evaluation) ==
    [style |-> style, file |-> file, prompt |-> prompt, evaluation |-> evaluation, error |-> None]

\* the worker's except clause: return style, None, None, failed_eval, error_msg
\* (in the sequential generator files[style] was already assigned when the
\* evaluation raises, so the paths stay recorded)
FailureTuple(variant, style, file, prompt, e) ==
    LET error_msg == WrapPortrait(style, e)
    IN  [style |-> style,
         file |-> IF variant = "basic" THEN file ELSE NoPath,
         prompt |-> IF variant = "basic" THEN prompt ELSE NoPath,
         evaluation |-> FailedEvaluation(error_msg), error |-> error_msg]

Running == {w \in DOMAIN wk : wk[w].pc \notin {"queued", "finished", "collected"}}

MemRef(i) == [dir |-> "mem", base |-> <<"reference_images", Digits[i]>>, ext |-> "local_path"]

Writers(r) == IF r \in DOMAIN wrote THEN wrote[r] ELSE {}

RECURSIVE NoteWrites(_, _, _)
NoteWrites(wr, rs, w) ==
    IF rs = {} THEN wr
    ELSE LET r == CHOOSE x \in rs : TRUE
         IN  NoteWrites(Put(wr, r, (IF r \in DOMAIN wr THEN wr[r] ELSE {}) \cup {w}), rs \ {r}, w)

\* writing a file gives it a new modification time
RECURSIVE WriteFiles(_, _, _)
WriteFiles(f, ps, data) ==
    IF ps = {} THEN f
    ELSE LET p == CHOOSE x \in ps : TRUE
             t == IF p \in DOMAIN f THEN f[p].mtime + 1 ELSE 1
         IN  WriteFiles(Put(f, p, [mtime |-> t, data |-> data]), ps \ {p}, data)

Finish(w, res, stages) ==
    wk' = [wk EXCEPT ![w].pc = "finished", ![w].res = res,
                     ![w].trace = wk[w].trace \o stages]

\* the pool hands a queued task to a free thread; the sequential generator
\* enters the next iteration of "for style in styles"
WorkerStart(w) ==
    /\ mpc = "collect"
    /\ wk[w].pc = "queued"
    /\ IF cfg.variant = "basic"
       THEN \A v \in DOMAIN wk : v < w => wk[v].pc = "collected"
       ELSE Cardinality(Running) < MaxWorkers(req.styles)

SkipExistingMutant(force, image_path, f) == FALSE

\* _generate_version(_enhanced): if not force_regenerate and image_path.exists(): return
SkipExisting(force, image_path, f) == ~force /\ image_path \in DOMAIN f

PrepStagesMutant == IF cfg.preflight THEN <<"preflight", "compose", "save_prompt">>
                    ELSE <<"compose", "save_prompt">>

\* prompt built, pre-generation validation (if the profile enables it), prompt sidecar written
PrepStages == IF cfg.preflight THEN <<"compose", "preflight", "save_prompt">>
              ELSE <<"compose", "save_prompt">>

\* self.validator.validate(subject_data, style, prompt, reference_images), if
\* the profile enables the checks: what the checks find comes from the environment
Findings == IF cfg.preflight THEN env.findings ELSE {NoFinding}

\* validation.is_valid of the ValidationResult, where the validator is called
Verdict(finding) == IF finding = NoFinding THEN "unchecked"
                    ELSE IF Validate(finding).is_valid THEN "valid" ELSE "invalid"

AfterPreflightMutant(verdict) == IF verdict = "invalid" THEN "finished" ELSE "attempt"

\* if not validation.is_valid: logger.warning(...)  # Continue anyway but log issues
AfterPreflight(verdict) == "attempt"

\* the environment may still make a call raise
CanFail(n) == faults + n <= env.budget

\* a started task runs _generate_version(_enhanced) up to the generation loop: return the existing
\* file, or build the prompt, run the advisory pre-generation validation and
\* write the prompt sidecar
WPrepare(w) ==
    /\ WorkerStart(w)
    /\ LET style == wk[w].style
           me == wk[w]
           p == BuildPrompt(subject_data, style)
       IN  IF SkipExisting(req.force, ImagePath(subject_data, style), fs)
           THEN /\ wk' = [wk EXCEPT ![w].pc = "eval", ![w].trace = Append(me.trace, "skip")]
                /\ UNCHANGED <<fs, wrote, faults>>
           ELSE \/ \* everything worked
                   /\ \E finding \in Findings :
                        wk' = [wk EXCEPT ![w].pc = AfterPreflight(Verdict(finding)),
                                         ![w].prompt = p,
                                         ![w].valid = Verdict(finding),
                                         ![w].finding = finding,
                                         ![w].validation = IF finding = NoFinding
                                                           THEN NoValidation
                                                           ELSE Validate(finding),
                                         ![w].trace = me.trace \o PrepStages]
                   /\ fs' = WriteFiles(fs, {PromptPath(subject_data, style)}, p)
                   /\ wrote' = NoteWrites(wrote, {PromptPath(subject_data, style)}, w)
                   /\ UNCHANGED faults
                \/ \* stage k raised: the outer except wraps it in RuntimeError
                   \E k \in DOMAIN PrepStages :
                      /\ CanFail(1)
                      /\ faults' = faults + 1
                      /\ Finish(w, FailureTuple(cfg.variant, style, NoPath, NoPath,
                                                WrapVersion(style, StageErr(PrepStages[k]))),
                                SubSeq(PrepStages, 1, k))
                      /\ UNCHANGED <<fs, wrote>>
    /\ UNCHANGED <<partVars, cfg, req, env, mpc, idx, results, subject_data, refs, refLocal, files, prompts,
                   evaluations, errors, fs0, mtrace, hist>>

AttemptStagesMutant(style) ==
    <<"backend", "backend">> \o (IF style \in {"BW", "Sepia"} THEN <<"transform">> ELSE <<>>)
        \o <<"overlay", "save">>

\* the stages of one pass of the generation loop after the reference download
AttemptStages(style) ==
    <<"backend">> \o (IF style \in {"BW", "Sepia"} THEN <<"transform">> ELSE <<>>)
        \o <<"overlay", "save">>

IsFinalAttemptMutant(attempt, max_attempts) == ~(attempt < max_attempts)

\* if attempt < max_attempts - 1: retry, else: raise
IsFinalAttempt(attempt, max_attempts) == ~(attempt < max_attempts - 1)

\* if self.model_profile and ...enable_smart_retry: prompt = self._refine_prompt_for_retry(...)
NextPrompt(smart_retry, prompt, e) ==
    IF smart_retry THEN RefinePromptForRetry(prompt, e) ELSE prompt

\* _generate_image_advanced: if reference_images and self.reference_finder: download
UsesReferences == refs > 0 /\ cfg.finder

\* one pass of "for attempt in range(max_attempts)": download the references
\* (each download may fail and is then skipped), call the image backend,
\* transform, overlay, save
WAttempt(w) ==
    /\ wk[w].pc = "attempt"
    /\ LET style == wk[w].style
           me == wk[w]
           image_path == ImagePath(subject_data, style)
           pre == IF UsesReferences THEN <<"download">> ELSE <<>>
           stages == AttemptStages(style)
       IN  \E got \in (IF UsesReferences THEN SUBSET (1..refs) ELSE {{}}) :
             LET refFiles == {RefPath(i) : i \in got}
                 refMem == {MemRef(i) : i \in got}
                 fsRefs == WriteFiles(fs, refFiles, <<"reference">>)
                 lost == IF UsesReferences /\ got # 1..refs THEN 1 ELSE 0
             IN
             /\ refLocal' = refLocal \cup got
             /\ \/ \* the attempt succeeded: final_image.save(image_path)
                   /\ CanFail(lost)
                   /\ faults' = faults + lost
                   /\ fs' = WriteFiles(fsRefs, {image_path}, me.prompt)
                   /\ wrote' = NoteWrites(wrote, refFiles \cup refMem \cup {image_path}, w)
                   /\ wk' = [wk EXCEPT ![w].pc = "eval",
                                       ![w].sent = Append(me.sent, me.prompt),
                                       ![w].trace = me.trace \o pre \o stages]
                \/ \* stage k raised e
                   \E k \in DOMAIN stages :
                   \E e \in (IF stages[k] = "backend" THEN env.errors ELSE {StageErr(stages[k])}) :
                      /\ CanFail(lost + 1)
                      /\ faults' = faults + lost + 1
                      /\ fs' = fsRefs
                      /\ wrote' = NoteWrites(wrote, refFiles \cup refMem, w)
                      /\ IF IsFinalAttempt(me.attempt, cfg.max_attempts)
                         THEN wk' = [wk EXCEPT
                                 ![w].pc = "finished",
                                 ![w].sent = Append(me.sent, me.prompt),
                                 ![w].errs = Append(me.errs, e),
                                 ![w].trace = me.trace \o pre \o SubSeq(stages, 1, k),
                                 ![w].res = FailureTuple(cfg.variant, style, NoPath, NoPath,
                                                         WrapVersion(style, e))]
                         ELSE wk' = [wk EXCEPT
                                 ![w].attempt = me.attempt + 1,
                                 ![w].sent = Append(me.sent, me.prompt),
                                 ![w].errs = Append(me.errs, e),
                                 ![w].prompt = NextPrompt(cfg.smart_retry, me.prompt, e),
                                 ![w].trace = me.trace \o pre \o SubSeq(stages, 1, k)]
    /\ UNCHANGED <<partVars, cfg, req, env, mpc, idx, results, subject_data, refs, files, prompts,
                   evaluations, errors, fs0, mtrace, hist>>

\* Image.open(file_path); self.evaluator.evaluate_portrait(image, subject_data, style)
WEvaluate(w) ==
    /\ wk[w].pc = "eval"
    /\ LET style == wk[w].style
           image_path == ImagePath(subject_data, style)
           prompt_path == PromptPath(subject_data, style)
       IN  \/ /\ \E passed \in BOOLEAN :
                   Finish(w, SuccessTuple(style, image_path, prompt_path, RealEvaluation(passed)),
                          <<"evaluate">>)
              /\ UNCHANGED faults
           \/ /\ CanFail(1)
              /\ faults' = faults + 1
              /\ Finish(w, FailureTuple(cfg.variant, style, image_path, prompt_path,
                                        StageErr("evaluate")), <<"evaluate">>)
    /\ UNCHANGED <<partVars, cfg, req, env, mpc, idx, results, subject_data, refs, refLocal, files, prompts,
                   evaluations, errors, fs, wrote, fs0, mtrace, hist>>

\* --------------------------------------------------------- calling thread
CollectFilesMutant(variant, fl, res, path) == Put(fl, res.style, path)

\* files[style] = file_path  (enhanced: only "if error: ... else:")
CollectFiles(variant, fl, res, path) ==
    IF variant = "basic"
    THEN (IF res.file # NoPath THEN Put(fl, res.style, path) ELSE fl)
    ELSE (IF res.error # None THEN fl ELSE Put(fl, res.style, path))

CollectErrorsMutant(errs, res) == errs

\* errors.append(error)
CollectErrors(errs, res) == IF res.error # None THEN Append(errs, res.error) ELSE errs

CollectEvaluationMutant(evals, res) ==
    IF res.error # None THEN evals ELSE Put(evals, res.style, res.evaluation)

\* evaluations[style] = evaluation
CollectEvaluation(evals, res) == Put(evals, res.style, res.evaluation)

\* for future in as_completed(futures): any finished, not yet collected future
Collect(w) ==
    /\ mpc = "collect"
    /\ wk[w].pc = "finished"
    /\ LET res == wk[w].res
       IN  /\ files' = CollectFiles(cfg.variant, files, res, res.file)
           /\ prompts' = CollectFiles(cfg.variant, prompts, res, res.prompt)
           /\ errors' = CollectErrors(errors, res)
           /\ evaluations' = CollectEvaluation(evaluations, res)
    /\ wk' = [wk EXCEPT ![w].pc = "collected"]
    /\ UNCHANGED <<partVars, cfg, req, env, mpc, idx, results, subject_data, refs, refLocal,
                   fs, faults, wrote, fs0, mtrace, hist>>

\* generate_batch: if not subject_names: raise ValueError
BatchEmpty ==
    /\ mpc = "batch"
    /\ req.names = <<>>
    /\ mpc' = "raised"
    /\ UNCHANGED <<partVars, cfg, req, env, idx, results, subject_data, refs, refLocal, wk, files, prompts,
                   evaluations, errors, fs, faults, wrote, fs0, mtrace, hist>>

\* generate_batch calls generate_portrait(name): the argument checks raise
\* ValueError, which generate_batch turns into a failed entry (errors=[str(e)])
BatchNext ==
    /\ mpc = "batch"
    /\ idx <= Len(req.names)
    /\ IF InvalidName(CurName)
       THEN ReturnToBatch(FailedPortraitResult(CurName, EmptyNameErr), CallHist(TRUE, FALSE, <<>>))
       ELSE IF InvalidStyles(req.styles)
       THEN ReturnToBatch(FailedPortraitResult(CurName, InvalidStylesErr), CallHist(TRUE, FALSE, <<>>))
       ELSE /\ mpc' = "research"
            /\ UNCHANGED <<idx, results, subject_data, refs, refLocal, wk, files, prompts,
                           evaluations, errors, wrote, fs0, mtrace, hist>>
    /\ UNCHANGED <<partVars, cfg, req, env, fs, faults>>

\* generate_batch: return results
BatchDone ==
    /\ mpc = "batch"
    /\ req.names # <<>>
    /\ idx > Len(req.names)
    /\ mpc' = "done"
    /\ UNCHANGED <<partVars, cfg, req, env, idx, results, subject_data, refs, refLocal, wk, files, prompts,
                   evaluations, errors, fs, faults, wrote, fs0, mtrace, hist>>

ResearchMutant ==
    /\ mpc = "research"
    /\ \/ /\ subject_data' = CurName
          /\ UNCHANGED faults
       \/ /\ CanFail(1)
          /\ faults' = faults + 1
          /\ UNCHANGED subject_data
    /\ mpc' = IF cfg.variant = "enhanced" /\ cfg.finder THEN "refs" ELSE "submit"
    /\ mtrace' = Append(mtrace, "research")
    /\ UNCHANGED <<partVars, cfg, req, env, fs, idx, results, refs, refLocal, wk, files, prompts,
                   evaluations, errors, wrote, fs0, hist>>

\* Step 1: subject_data = self.researcher.research_subject(subject_name)
Research ==
    /\ mpc = "research"
    /\ \/ /\ subject_data' = CurName
          /\ UNCHANGED faults
          /\ mpc' = IF cfg.variant = "enhanced" /\ cfg.finder THEN "refs" ELSE "submit"
          /\ mtrace' = Append(mtrace, "research")
          /\ UNCHANGED <<idx, results, refs, refLocal, wk, files, prompts, evaluations, errors,
                         wrote, fs0, hist>>
       \/ \* RuntimeError from the researcher: the outer except builds a failed result
          /\ CanFail(1)
          /\ faults' = faults + 1
          /\ ReturnToBatch(FailedPortraitResult(CurName, WrapGeneration(ResearchErr(CurName))),
                        CallHist(FALSE, FALSE, <<"research">>))
    /\ UNCHANGED <<partVars, cfg, req, env, fs>>

\* Step 2: reference_images = self.reference_finder.find_reference_images(...)
FindReferences ==
    /\ mpc = "refs"
    /\ \E n \in env.found : refs' = n
    /\ mpc' = "submit"
    /\ mtrace' = Append(mtrace, "find_references")
    /\ UNCHANGED <<partVars, cfg, req, env, idx, results, subject_data, refLocal, wk, files, prompts,
                   evaluations, errors, fs, faults, wrote, fs0, hist>>

\* Step 3: ThreadPoolExecutor(max_workers=min(4, len(styles))) and one submit
\* per style; the sequential generator starts its loop over styles
Submit ==
    /\ mpc = "submit"
    /\ IF cfg.variant = "enhanced" /\ MaxWorkers(req.styles) = 0
       THEN \* ThreadPoolExecutor raises ValueError: max_workers must be greater than 0
            ReturnToBatch(FailedPortraitResult(CurName, WrapGeneration(<<"max_workers">>)),
                          CallHist(FALSE, TRUE, <<"submit">>))
       ELSE /\ wk' = [w \in DOMAIN req.styles |-> NewWorker(req.styles[w])]
            /\ mpc' = "collect"
            /\ mtrace' = Append(mtrace, "submit")
            /\ UNCHANGED <<idx, results, subject_data, refs, refLocal, files, prompts,
                           evaluations, errors, wrote, fs0, hist>>
    /\ UNCHANGED <<partVars, cfg, req, env, fs, faults>>

\* return PortraitResult(files, prompts, evaluation, success, errors)
PortraitResultOf(name, fl, pr, evals, errs) ==
    [subject |-> name, files |-> fl, prompts |-> pr, evaluation |-> evals,
     success |-> Success(fl, errs), errors |-> errs]

Complete ==
    /\ mpc = "collect"
    /\ \A w \in DOMAIN wk : wk[w].pc = "collected"
    /\ ReturnToBatch(PortraitResultOf(CurName, files, prompts, evaluations, errors),
                     CallHist(FALSE, TRUE, <<>>))
    /\ UNCHANGED <<partVars, cfg, req, env, fs, faults>>

\* ---------------------------------------------------------- model registry
FeatureNames == {"google_search_grounding", "multi_image_reference", "internal_reasoning",
                 "physics_aware_synthesis", "native_text_rendering", "iterative_refinement",
                 "supports_batch"}

\* the boolean fields of ModelCapabilities
Capabilities(supported) == [f \in FeatureNames |-> f \in supported]

DEFAULT_MODEL == "gemini-3-pro-image-preview"

LEGACY_MODEL == "gemini-exp-1206"

FLASH_MODEL == "gemini-2.0-flash-exp"

\* the profiles as the module defines them; thresholds in hundredths
MODEL_PROFILES ==
    (DEFAULT_MODEL :>
        [model_name |-> DEFAULT_MODEL, is_recommended |-> TRUE,
         capabilities |-> Capabilities(FeatureNames \ {"supports_batch"}),
         generation |-> [enable_pre_generation_checks |-> TRUE,
                         enable_iterative_refinement |-> TRUE,
                         max_internal_iterations |-> 3,
                         quality_threshold |-> 90,
                         confidence_threshold |-> 85,
                         enable_search_grounding |-> TRUE,
                         enable_reference_images |-> TRUE,
                         max_reference_images_to_use |-> 5,
                         max_generation_attempts |-> 2,
                         enable_smart_retry |-> TRUE],
         evaluation |-> [use_holistic_reasoning |-> TRUE,
                         reasoning_passes |-> 2,
                         autonomous_error_detection |-> TRUE,
                         visual_coherence_checking |-> TRUE,
                         enable_fact_checking |-> TRUE]])
    @@ (LEGACY_MODEL :>
        [model_name |-> LEGACY_MODEL, is_recommended |-> FALSE,
         capabilities |-> Capabilities({}),
         generation |-> [enable_pre_generation_checks |-> FALSE,
                         enable_iterative_refinement |-> FALSE,
                         max_internal_iterations |-> 1,
                         quality_threshold |-> 80,
                         confidence_threshold |-> 75,
                         enable_search_grounding |-> FALSE,
                         enable_reference_images |-> FALSE,
                         max_reference_images_to_use |-> 0,
                         max_generation_attempts |-> 2,
                         enable_smart_retry |-> FALSE],
         evaluation |-> [use_holistic_reasoning |-> FALSE,
                         reasoning_passes |-> 1,
                         autonomous_error_detection |-> FALSE,
                         visual_coherence_checking |-> FALSE,
                         enable_fact_checking |-> FALSE]])
    @@ (FLASH_MODEL :>
        [model_name |-> FLASH_MODEL, is_recommended |-> FALSE,
         capabilities |-> Capabilities({"native_text_rendering"}),
         generation |-> [enable_pre_generation_checks |-> FALSE,
                         enable_iterative_refinement |-> FALSE,
                         max_internal_iterations |-> 1,
                         quality_threshold |-> 75,
                         confidence_threshold |-> 70,
                         enable_search_grounding |-> FALSE,
                         enable_reference_images |-> FALSE,
                         max_reference_images_to_use |-> 0,
                         max_generation_attempts |-> 2,
                         enable_smart_retry |-> FALSE],
         evaluation |-> [use_holistic_reasoning |-> FALSE,
                         reasoning_passes |-> 1,
                         autonomous_error_detection |-> FALSE,
                         visual_coherence_checking |-> FALSE,
                         enable_fact_checking |-> FALSE]])

\* how a call ends
Raise(e) == [raised |-> e]

Return(value) == [raised |-> "", value |-> value]

\* the profile get_model_profile would hand out if it fell back instead of raising
DisabledProfile(model_name) ==
    [MODEL_PROFILES[LEGACY_MODEL] EXCEPT !.model_name = model_name]

ModelProfileResultMutant(reg, model_name) ==
    IF model_name \notin DOMAIN reg THEN Return(DisabledProfile(model_name))
    ELSE Return(reg[model_name])

\* get_model_profile: ValueError("Unsupported model: ...") for a name that is
\* not in MODEL_PROFILES, else the registry's profile object
ModelProfileResult(reg, model_name) ==
    IF model_name \notin DOMAIN reg THEN Raise("ValueError")
    ELSE Return(reg[model_name])

\* for key, value in override.items(): if hasattr(config, key): setattr(config, key, value)
ApplyOverrides(config, override) ==
    [key \in DOMAIN config |-> IF key \in DOMAIN override THEN override[key] ELSE config[key]]

\* get_optimal_config_for_model: the overrides are set on the profile object
\* get_model_profile returned, which is the registry's; out is how the call
\* ends, reg the registry after it
OptimalConfigResult(reg, model_name, override_generation, override_evaluation) ==
    LET got == ModelProfileResult(reg, model_name)
    IN  IF got.raised # "" THEN [out |-> got, reg |-> reg]
        ELSE LET profile == [got.value EXCEPT
                                !.generation = ApplyOverrides(@, override_generation),
                                !.evaluation = ApplyOverrides(@, override_evaluation)]
             IN  [out |-> Return(profile),
                  reg |-> IF model_name \in DOMAIN reg
                          THEN [reg EXCEPT ![model_name] = profile] ELSE reg]

\* Settings.get_model_profile: the overrides built from the settings
AdvancedFeaturesOff ==
    [enable_pre_generation_checks |-> FALSE, enable_iterative_refinement |-> FALSE,
     enable_search_grounding |-> FALSE, enable_reference_images |-> FALSE]

GenerationOverrides(settings) ==
    [quality_threshold |-> settings.quality_threshold,
     confidence_threshold |-> settings.confidence_threshold,
     max_reference_images_to_use |-> settings.max_reference_images,
     max_internal_iterations |-> settings.max_internal_iterations,
     max_generation_attempts |-> settings.max_generation_attempts]
        @@ (IF settings.enable_advanced_features THEN <<>> ELSE AdvancedFeaturesOff)

EvaluationOverrides(settings) == [reasoning_passes |-> settings.reasoning_passes]

\* Settings with its field defaults
DefaultSettings(model, advanced) ==
    [gemini_model |-> model, enable_advanced_features |-> advanced,
     quality_threshold |-> 90, confidence_threshold |-> 85, max_reference_images |-> 5,
     max_internal_iterations |-> 3, max_generation_attempts |-> DefaultAttempts,
     reasoning_passes |-> 2]

NoManager == [model_name |-> "", profile |-> ""]

GetProfileSafeMutant(reg, model_name) ==
    IF model_name \in DOMAIN reg THEN model_name ELSE DEFAULT_MODEL

\* CompatibilityManager._get_profile_safe: the registry's profile object (held
\* by name, it is shared), None after the ValueError of an unknown model
GetProfileSafe(reg, model_name) ==
    IF ModelProfileResult(reg, model_name).raised = "ValueError" THEN "None" ELSE model_name

\* supports_feature: False without a profile, else getattr(capabilities, feature, False)
SupportsFeatureResult(manager, reg, feature) ==
    IF manager.profile = "None" THEN FALSE
    ELSE IF feature \in DOMAIN reg[manager.profile].capabilities
         THEN reg[manager.profile].capabilities[feature] ELSE FALSE

\* get_generation_config
GenerationConfigResult(manager, reg) ==
    IF manager.profile = "None"
    THEN [enable_pre_generation_checks |-> FALSE,
          enable_iterative_refinement |-> FALSE,
          max_internal_iterations |-> 1,
          enable_search_grounding |-> FALSE,
          enable_reference_images |-> FALSE,
          max_reference_images_to_use |-> 0,
          max_generation_attempts |-> 2,
          enable_smart_retry |-> FALSE]
    ELSE LET g == reg[manager.profile].generation
         IN  [enable_pre_generation_checks |-> g.enable_pre_generation_checks,
              enable_iterative_refinement |-> g.enable_iterative_refinement,
              max_internal_iterations |-> g.max_internal_iterations,
              enable_search_grounding |-> g.enable_search_grounding,
              enable_reference_images |-> g.enable_reference_images,
              max_reference_images_to_use |-> g.max_reference_images_to_use,
              max_generation_attempts |-> g.max_generation_attempts,
              enable_smart_retry |-> g.enable_smart_retry]

\* get_evaluation_config
EvaluationConfigResult(manager, reg) ==
    IF manager.profile = "None"
    THEN [use_holistic_reasoning |-> FALSE,
          reasoning_passes |-> 1,
          autonomous_error_detection |-> FALSE,
          visual_coherence_checking |-> FALSE,
          enable_fact_checking |-> FALSE]
    ELSE LET e == reg[manager.profile].evaluation
         IN  [use_holistic_reasoning |-> e.use_holistic_reasoning,
              reasoning_passes |-> e.reasoning_passes,
              autonomous_error_detection |-> e.autonomous_error_detection,
              visual_coherence_checking |-> e.visual_coherence_checking,
              enable_fact_checking |-> e.enable_fact_checking]

\* adapted[key] = value on a dictionary
SetKey(d, key, value) == [k \in DOMAIN d \cup {key} |-> IF k = key THEN value ELSE d[k]]

\* settings.get('quality_threshold', 0.90)
RequestedThreshold(settings) ==
    IF "quality_threshold" \in DOMAIN settings THEN settings["quality_threshold"] ELSE 90

AdaptSettingsResultMutant(manager, reg, settings) ==
    IF manager.profile = "None" THEN settings
    ELSE SetKey(settings, "quality_threshold", reg[manager.profile].generation.quality_threshold)

\* adapt_settings_for_model: a copy of the settings with the features the
\* model lacks switched off and the quality threshold lowered to the profile's
AdaptSettingsResult(manager, reg, settings) ==
    IF manager.profile = "None"
    THEN SetKey(SetKey(SetKey(SetKey(SetKey(settings,
             "enable_reference_images", FALSE),
             "enable_search_grounding", FALSE),
             "enable_internal_reasoning", FALSE),
             "enable_pre_generation_checks", FALSE),
             "use_holistic_reasoning", FALSE)
    ELSE LET profile == reg[manager.profile]
             a1 == IF ~profile.capabilities["multi_image_reference"]
                   THEN SetKey(SetKey(settings, "enable_reference_images", FALSE),
                               "max_reference_images", 0)
                   ELSE settings
             a2 == IF ~profile.capabilities["google_search_grounding"]
                   THEN SetKey(a1, "enable_search_grounding", FALSE) ELSE a1
             a3 == IF ~profile.capabilities["internal_reasoning"]
                   THEN SetKey(SetKey(a2, "enable_internal_reasoning", FALSE),
                               "max_internal_iterations", 1)
                   ELSE a2
             a4 == IF ~profile.capabilities["iterative_refinement"]
                   THEN SetKey(a3, "enable_iterative_refinement", FALSE) ELSE a3
         IN  IF profile.generation.quality_threshold < RequestedThreshold(settings)
             THEN SetKey(a4, "quality_threshold", profile.generation.quality_threshold)
             ELSE a4

\* the settings a caller asks for: every feature on
FeaturesRequested ==
    [enable_reference_images |-> TRUE, max_reference_images |-> 5,
     enable_search_grounding |-> TRUE, enable_internal_reasoning |-> TRUE,
     max_internal_iterations |-> 3, enable_iterative_refinement |-> TRUE,
     enable_pre_generation_checks |-> TRUE, use_holistic_reasoning |-> TRUE]

\* with a quality threshold below, at or above the profiles' own, or with none
RequestedSettings ==
    {<<>>, FeaturesRequested}
        \cup {SetKey(FeaturesRequested, "quality_threshold", q) : q \in {75, 80, 85, 90, 95, 100}}

\* the names the callers look up: two registered models and one that is not
UnknownModel == "invalid-model-name"

LookupNames == {DEFAULT_MODEL, LEGACY_MODEL, UnknownModel}

\* override dictionaries: none, a threshold and the attempts, a key that is no field
GenerationOverrideSets ==
    {<<>>,
     [quality_threshold |-> 95, max_generation_attempts |-> MaxAttemptsBound + 1],
     [no_such_field |-> 1]}

EvaluationOverrideSets == {<<>>, [reasoning_passes |-> 3]}

AskedFeatures == FeatureNames \cup {"unknown_feature"}

NoCall == [op |-> "", model |-> "", out |-> Return(FALSE)]

NoEvaluation == <<>>

GetModelProfile ==
    /\ \E model_name \in LookupNames :
          ret' = [op |-> "get_model_profile", model |-> model_name,
                  out |-> ModelProfileResult(registry, model_name)]
    /\ UNCHANGED <<generatorVars, heap, calls, ev, registry, cm>>

GetOptimalConfigForModel ==
    /\ \E model_name \in LookupNames, og \in GenerationOverrideSets, oe \in EvaluationOverrideSets :
          LET r == OptimalConfigResult(registry, model_name, og, oe)
          IN  /\ ret' = [op |-> "get_optimal_config_for_model", model |-> model_name, out |-> r.out]
              /\ registry' = r.reg
    /\ UNCHANGED <<generatorVars, heap, calls, ev, cm>>

SettingsGetModelProfile ==
    /\ \E model_name \in LookupNames, advanced \in BOOLEAN :
          LET settings == DefaultSettings(model_name, advanced)
              r == OptimalConfigResult(registry, settings.gemini_model,
                                       GenerationOverrides(settings),
                                       EvaluationOverrides(settings))
          IN  /\ ret' = [op |-> "Settings.get_model_profile", model |-> model_name, out |-> r.out]
              /\ registry' = r.reg
    /\ UNCHANGED <<generatorVars, heap, calls, ev, cm>>

\* CompatibilityManager(model_name)
NewCompatibilityManager ==
    /\ \E model_name \in LookupNames :
          /\ cm' = [model_name |-> model_name, profile |-> GetProfileSafe(registry, model_name)]
          /\ ret' = [op |-> "CompatibilityManager", model |-> model_name, out |-> Return(TRUE)]
    /\ UNCHANGED <<generatorVars, heap, calls, ev, registry>>

SupportsFeature ==
    /\ cm # NoManager
    /\ \E feature \in AskedFeatures :
          ret' = [op |-> "supports_feature", model |-> cm.model_name, feature |-> feature,
                  out |-> Return(SupportsFeatureResult(cm, registry, feature))]
    /\ UNCHANGED <<generatorVars, heap, calls, ev, registry, cm>>

GetGenerationConfig ==
    /\ cm # NoManager
    /\ ret' = [op |-> "get_generation_config", model |-> cm.model_name,
               out |-> Return(GenerationConfigResult(cm, registry))]
    /\ UNCHANGED <<generatorVars, heap, calls, ev, registry, cm>>

GetEvaluationConfig ==
    /\ cm # NoManager
    /\ ret' = [op |-> "get_evaluation_config", model |-> cm.model_name,
               out |-> Return(EvaluationConfigResult(cm, registry))]
    /\ UNCHANGED <<generatorVars, heap, calls, ev, registry, cm>>

AdaptSettingsForModel ==
    /\ cm # NoManager
    /\ \E settings \in RequestedSettings :
          ret' = [op |-> "adapt_settings_for_model", model |-> cm.model_name,
                  settings |-> settings,
                  out |-> Return(AdaptSettingsResult(cm, registry, settings))]
    /\ UNCHANGED <<generatorVars, heap, calls, ev, registry, cm>>

\* -------------------------------------------------------------- evaluators
\* Scores are kept in six-hundredths of one, the unit in which a share of the
\* five technical checks, a hundredth and a visual score over max_score are
\* whole numbers.  A quotient that need not be whole (a weighted score, a
\* mean of scores) is kept as the pair [num, den] with den > 0.  The issues
\* list is kept as the set of its texts.
Hundredths(h) == 6 * h

Ratio(num, den) == [num |-> num, den |-> den]

\* ratio >= score
AtLeast(ratio, score) == ratio.num >= score * ratio.den

RECURSIVE SumOver(_, _)
SumOver(f, keys) ==
    IF keys = {} THEN 0
    ELSE LET k == CHOOSE x \in keys : TRUE
         IN  f[k] + SumOver(f, keys \ {k})

\* QualityEvaluator.check_technical_requirements: the image is described by
\* what each check reads from it
CheckTechnicalRequirements(image) ==
    ("Correct width" :> image.width_ok)
    @@ ("Correct height" :> image.height_ok)
    @@ ("RGB mode" :> (image.mode = "RGB"))
    @@ ("Image has content" :> image.content)
    @@ ("Overlay present" :> image.overlay)

\* sum(tech_checks.values()) / len(tech_checks)
TechScore(tech_checks) ==
    IF DOMAIN tech_checks = {} THEN 0
    ELSE (Hundredths(100) * Cardinality({c \in DOMAIN tech_checks : tech_checks[c]}))
            \div Cardinality(DOMAIN tech_checks)

TechIssues(tech_checks) == {c \in DOMAIN tech_checks : ~tech_checks[c]}

\* QualityEvaluator.check_visual_quality: the points of the four criteria, in
\* hundredths, over max_score = criteria * 0.3
CheckVisualQuality(image) ==
    LET composition == CASE image.brightness = "40..200" -> 30
                         [] image.brightness = "20..220" -> 15
                         [] OTHER -> 0
        contrast == CASE image.contrast = ">150" -> 30
                      [] image.contrast = ">100" -> 20
                      [] image.contrast = ">50" -> 10
                      [] OTHER -> 0
        detail == CASE image.detail = ">0.3" -> 25
                    [] image.detail = ">0.15" -> 15
                    [] OTHER -> 0
        artifacts == CASE image.artifacts = "<0.05" -> 15
                       [] image.artifacts = "<0.1" -> 10
                       [] OTHER -> 0
        score == composition + contrast + detail + artifacts
        criteria == 4
        max_score == criteria * 30
    IN  Min(Hundredths(100), (Hundredths(100) * score) \div max_score)

\* QualityEvaluator.check_style_adherence: the share of the 100 sampled
\* pixels that look like the style
CheckStyleAdherence(image, style) ==
    CASE style = "BW" -> Hundredths(image.grayscale_pixels)
      [] style = "Sepia" -> Hundredths(image.warm_pixels)
      [] style = "Color" -> Hundredths(image.color_pixels)
      [] style = "Painting" -> Hundredths(85)
      [] OTHER -> Hundredths(50)

\* QualityEvaluator.check_historical_accuracy
CheckHistoricalAccuracy(image) == IF image.content THEN Hundredths(85) ELSE 0

MIN_VISUAL_QUALITY_SCORE == Hundredths(85)

MIN_HISTORICAL_ACCURACY_SCORE == Hundredths(80)

\* sum(p[:3]) on the pixels of a single-band image
Subscriptable(image) == image.mode # "L"

\* EvaluationResult.overall_score: the mean of every entry of scores
OverallScore(scores) ==
    LET whole == DOMAIN scores \ {"overall"}
        n == Cardinality(DOMAIN scores)
    IN  IF n = 0 THEN Ratio(0, 1)
        ELSE IF "overall" \in DOMAIN scores
        THEN Ratio(SumOver(scores, whole) * scores["overall"].den + scores["overall"].num,
                   n * scores["overall"].den)
        ELSE Ratio(SumOver(scores, whole), n)

\* QualityEvaluator.evaluate_portrait
QualityEvaluateResult(image, style) ==
    LET tech_checks == CheckTechnicalRequirements(image)
        tech_score == TechScore(tech_checks)
        visual_score == CheckVisualQuality(image)
        style_score == CheckStyleAdherence(image, style)
        accuracy_score == CheckHistoricalAccuracy(image)
        scores == ("technical" :> tech_score) @@ ("visual_quality" :> visual_score)
                  @@ ("style_adherence" :> style_score)
                  @@ ("historical_accuracy" :> accuracy_score)
        issues == TechIssues(tech_checks)
                  \cup (IF visual_score >= MIN_VISUAL_QUALITY_SCORE THEN {}
                        ELSE {"Visual quality below threshold"})
                  \cup (IF style_score >= Hundredths(80) THEN {}
                        ELSE {"Style adherence low"})
                  \cup (IF accuracy_score >= MIN_HISTORICAL_ACCURACY_SCORE THEN {}
                        ELSE {"Historical accuracy low"})
        passed == /\ tech_score >= Hundredths(95)
                  /\ visual_score >= MIN_VISUAL_QUALITY_SCORE
                  /\ accuracy_score >= MIN_HISTORICAL_ACCURACY_SCORE
    IN  IF style = "" THEN Raise("ValueError")
        ELSE IF ~Subscriptable(image) THEN Raise("TypeError")
        ELSE Return([passed |-> passed, scores |-> scores, issues |-> issues])

\* the model_profile an EnhancedQualityEvaluator was built with
HasProfile(evaluator) == evaluator.profile # "None"

ProfileOf(reg, evaluator) == reg[evaluator.profile]

SupportsHolisticEvaluation(reg, evaluator) ==
    /\ HasProfile(evaluator)
    /\ ProfileOf(reg, evaluator).evaluation.use_holistic_reasoning
    /\ ProfileOf(reg, evaluator).capabilities.internal_reasoning

SupportsVisualCoherence(reg, evaluator) ==
    /\ HasProfile(evaluator)
    /\ ProfileOf(reg, evaluator).evaluation.visual_coherence_checking
    /\ ProfileOf(reg, evaluator).capabilities.physics_aware_synthesis

SupportsFactChecking(reg, evaluator) ==
    /\ HasProfile(evaluator)
    /\ ProfileOf(reg, evaluator).evaluation.enable_fact_checking
    /\ ProfileOf(reg, evaluator).capabilities.google_search_grounding

GetQualityThreshold(reg, evaluator) ==
    IF HasProfile(evaluator) THEN Hundredths(ProfileOf(reg, evaluator).generation.quality_threshold)
    ELSE Hundredths(85)

\* the items of a bracketed list of a response that are kept as issues
NoneSpellings == {"none", "None", "NONE"}

ListedIssues(items) == {i \in items : i # "" /\ i \notin NoneSpellings}

\* _synthesize_evaluation_passes: the mean of the passes that carry the label
SynthesizedScore(responses, label) ==
    LET carrying == {i \in DOMAIN responses : label \in DOMAIN responses[i].scores}
    IN  IF carrying = {} THEN Hundredths(80)
        ELSE Hundredths(SumOver([i \in carrying |-> responses[i].scores[label]], carrying))
                \div Cardinality(carrying)

\* _holistic_evaluation
HolisticEvaluation(reg, evaluator) ==
    LET num_passes == ProfileOf(reg, evaluator).evaluation.reasoning_passes
        responses == Take(evaluator.replies.passes, num_passes)
    IN  IF ~evaluator.client THEN [scores |-> EmptyMap, issues |-> {}]
        ELSE IF \E i \in DOMAIN responses : responses[i].raised
        THEN [scores |-> ("holistic_quality" :> Hundredths(80)), issues |-> {}]
        ELSE [scores |-> ("holistic_quality" :> SynthesizedScore(responses, "QUALITY_SCORE"))
                         @@ ("style_adherence" :> SynthesizedScore(responses, "STYLE_SCORE"))
                         @@ ("historical_accuracy" :> SynthesizedScore(responses, "ACCURACY_SCORE")),
              issues |-> ListedIssues(UNION {responses[i].issues : i \in DOMAIN responses})]

\* _check_visual_coherence and _fact_check_visual_elements: one query, the
\* default score unless the response carries the label
SingleQueryCheck(evaluator, response, label) ==
    IF ~evaluator.client \/ response.raised THEN [score |-> Hundredths(85), issues |-> {}]
    ELSE [score |-> IF label \in DOMAIN response.scores
                    THEN Hundredths(response.scores[label]) ELSE Hundredths(85),
          issues |-> ListedIssues(response.issues)]

CheckVisualCoherence(evaluator) ==
    SingleQueryCheck(evaluator, evaluator.replies.coherence, "COHERENCE_SCORE")

FactCheckVisualElements(evaluator) ==
    SingleQueryCheck(evaluator, evaluator.replies.facts, "ACCURACY_SCORE")

\* _traditional_evaluation
TraditionalEvaluation(image, style) ==
    LET visual_score == CheckVisualQuality(image)
        style_score == CheckStyleAdherence(image, style)
        accuracy_score == CheckHistoricalAccuracy(image)
    IN  [scores |-> ("visual_quality" :> visual_score) @@ ("style_adherence" :> style_score)
                    @@ ("historical_accuracy" :> accuracy_score),
         issues |-> (IF visual_score >= Hundredths(85) THEN {}
                     ELSE {"Visual quality below threshold"})
                    \cup (IF style_score >= Hundredths(80) THEN {}
                          ELSE {"Style adherence low"})
                    \cup (IF accuracy_score >= Hundredths(80) THEN {}
                          ELSE {"Historical accuracy low"})]

\* the weights of EvaluationConfig, which no profile of the registry changes,
\* and the weight _calculate_weighted_score adds for coherence; in hundredths
EvaluationWeights ==
    ("technical" :> 25) @@ ("visual_quality" :> 25) @@ ("holistic_quality" :> 25)
    @@ ("style_adherence" :> 25) @@ ("historical_accuracy" :> 25) @@ ("visual_coherence" :> 10)

\* _calculate_weighted_score
CalculateWeightedScore(evaluator, scores) ==
    IF ~HasProfile(evaluator)
    THEN IF DOMAIN scores = {} THEN Ratio(0, 1)
         ELSE Ratio(SumOver(scores, DOMAIN scores), Cardinality(DOMAIN scores))
    ELSE LET weights == EvaluationWeights
             keys == DOMAIN scores \cap DOMAIN weights
             weighted_sum == SumOver([k \in keys |-> scores[k] * weights[k]], keys)
             total_weight == SumOver(weights, keys)
         IN  IF total_weight = 0 THEN Ratio(0, 1) ELSE Ratio(weighted_sum, total_weight)

\* EnhancedQualityEvaluator.evaluate_portrait
EnhancedEvaluateResult(reg, evaluator) ==
    LET image == evaluator.image
        tech_checks == CheckTechnicalRequirements(image)
        first == IF SupportsHolisticEvaluation(reg, evaluator)
                 THEN HolisticEvaluation(reg, evaluator)
                 ELSE TraditionalEvaluation(image, evaluator.style)
        coherence == IF SupportsVisualCoherence(reg, evaluator)
                     THEN LET r == CheckVisualCoherence(evaluator)
                          IN  [scores |-> ("visual_coherence" :> r.score), issues |-> r.issues]
                     ELSE [scores |-> EmptyMap, issues |-> {}]
        facts == IF SupportsFactChecking(reg, evaluator)
                 THEN LET r == FactCheckVisualElements(evaluator)
                      IN  [scores |-> ("historical_accuracy" :> r.score), issues |-> r.issues]
                 ELSE [scores |-> EmptyMap, issues |-> {}]
        scores == facts.scores @@ coherence.scores @@ first.scores
                  @@ ("technical" :> TechScore(tech_checks))
        issues == TechIssues(tech_checks) \cup first.issues \cup coherence.issues \cup facts.issues
        overall_score == CalculateWeightedScore(evaluator, scores)
        threshold == GetQualityThreshold(reg, evaluator)
        passed == AtLeast(overall_score, threshold) /\ issues = {}
    IN  IF evaluator.style = "" THEN Raise("ValueError")
        ELSE IF ~SupportsHolisticEvaluation(reg, evaluator) /\ ~Subscriptable(image)
        THEN Raise("TypeError")
        ELSE Return([passed |-> passed, scores |-> ("overall" :> overall_score) @@ scores,
                     issues |-> issues])

\* QualityEvaluator(...).evaluate_portrait(image, subject_data, style)
QualityEvaluatePortrait ==
    /\ ev # NoEvaluation
    /\ ret' = [op |-> "QualityEvaluator.evaluate_portrait", model |-> "",
               out |-> QualityEvaluateResult(ev.image, ev.style)]
    /\ UNCHANGED <<generatorVars, heap, calls, registry, cm, ev>>

\* EnhancedQualityEvaluator(client, profile).evaluate_portrait(image, subject_data, style)
EnhancedEvaluatePortrait ==
    /\ ev # NoEvaluation
    /\ ret' = [op |-> "EnhancedQualityEvaluator.evaluate_portrait", model |-> ev.profile,
               out |-> EnhancedEvaluateResult(registry, ev)]
    /\ UNCHANGED <<generatorVars, heap, calls, registry, cm, ev>>

\* ------------------------------------------------------- image transforms
\* An image object is [mode, pixels]: the pixels of an RGB image are triples,
\* those of an L image are levels.  heap holds the objects by identity.  The
\* coefficients are applied in exact arithmetic and the result is cut to a
\* whole level, as int() and the library's 8-bit store do.
Clip(level) == Max(0, Min(255, level))

\* Image.convert("L"): ITU-R 601-2 luma, rounded
Luma(p) == (p[1] * 19595 + p[2] * 38470 + p[3] * 7471 + 32768) \div 65536

\* Image.convert(mode): a new object in every case
Convert(image, mode) ==
    IF image.mode = mode THEN image
    ELSE IF mode = "L"
    THEN [mode |-> "L", pixels |-> [i \in DOMAIN image.pixels |-> Luma(image.pixels[i])]]
    ELSE [mode |-> "RGB",
          pixels |-> [i \in DOMAIN image.pixels |->
                        <<image.pixels[i], image.pixels[i], image.pixels[i]>>]]

\* int(ImageStat.Stat(image.convert("L")).mean[0] + 0.5)
MeanLevel(image) ==
    LET levels == Convert(image, "L").pixels
        n == Len(levels)
    IN  (2 * SumOver(levels, DOMAIN levels) + n) \div (2 * n)

\* Image.blend(degenerate, image, factor) on one band; factor in hundredths
Blend(in1, in2, alpha) == Clip((100 * in1 + alpha * (in2 - in1)) \div 100)

\* ImageEnhance.Contrast(image).enhance(factor)
EnhanceContrast(image, factor) ==
    LET mean == MeanLevel(image)
    IN  [mode |-> image.mode,
         pixels |-> [i \in DOMAIN image.pixels |->
                       [band \in 1..3 |-> Blend(mean, image.pixels[i][band], factor)]]]

\* what convert_to_bw returns; enhance_contrast in hundredths
BwImage(image, enhance_contrast) ==
    LET bw_image == Convert(Convert(image, "L"), "RGB")
    IN  IF enhance_contrast # 100 THEN EnhanceContrast(bw_image, enhance_contrast)
        ELSE bw_image

\* the loop body of convert_to_sepia; intensity in hundredths
SepiaPixel(p, intensity) ==
    LET r == p[1]
        g == p[2]
        b == p[3]
        gray == (299 * r + 587 * g + 114 * b) \div 1000
        tr == Min(255, ((393 + 769 + 189) * gray) \div 1000)
        tg == Min(255, ((349 + 686 + 168) * gray) \div 1000)
        tb == Min(255, ((272 + 534 + 131) * gray) \div 1000)
    IN  IF intensity < 100
        THEN <<(100 * gray + (tr - gray) * intensity) \div 100,
               (100 * gray + (tg - gray) * intensity) \div 100,
               (100 * gray + (tb - gray) * intensity) \div 100>>
        ELSE <<tr, tg, tb>>

\* the pixels of an RGB image after the loop of convert_to_sepia
SepiaImage(image, intensity) ==
    [mode |-> image.mode,
     pixels |-> [i \in DOMAIN image.pixels |-> SepiaPixel(image.pixels[i], intensity)]]

\* one record per call: the argument object and what it held, the returned
\* object and what it holds, and what the argument holds after the call
Called(op, param, id, after) ==
    [op |-> op, param |-> param, image |-> id, input |-> heap[id],
     returned |-> IF Len(after) > Len(heap) THEN Len(after) ELSE id,
     output |-> IF Len(after) > Len(heap) THEN after[Len(after)] ELSE after[id],
     left |-> after[id]]

\* convert_to_bw(image, enhance_contrast)
ConvertToBw ==
    /\ Len(calls) < MaxCalls
    /\ \E id \in DOMAIN heap, enhance_contrast \in {100, 120} :
          LET after == Append(heap, BwImage(heap[id], enhance_contrast))
          IN  /\ heap' = after
              /\ calls' = Append(calls, Called("convert_to_bw", enhance_contrast, id, after))
    /\ UNCHANGED <<generatorVars, registry, cm, ret, ev>>

\* convert_to_sepia(image, intensity): an image that is not RGB is converted
\* first and the loop writes into the copy; an RGB image is written into
ConvertToSepia ==
    /\ Len(calls) < MaxCalls
    /\ \E id \in DOMAIN heap, intensity \in {50, 100} :
          LET after == IF heap[id].mode # "RGB"
                       THEN Append(heap, SepiaImage(Convert(heap[id], "RGB"), intensity))
                       ELSE [heap EXCEPT ![id] = SepiaImage(@, intensity)]
          IN  /\ heap' = after
              /\ calls' = Append(calls, Called("convert_to_sepia", intensity, id, after))
    /\ UNCHANGED <<generatorVars, registry, cm, ret, ev>>

\* ------------------------------------------------------------ specification
InitProgram(cfgs, nameLists, styleLists, forces, budget, errs, found, findings, evaluated, held) ==
    /\ cfg \in cfgs
    /\ env = [budget |-> budget, errors |-> errs, found |-> found, findings |-> findings]
    /\ req \in [names : nameLists, styles : styleLists, force : forces]
    /\ mpc = "batch"
    /\ idx = 1
    /\ results = <<>>
    /\ subject_data = None
    /\ refs = 0
    /\ refLocal = {}
    /\ wk = NoWorkers
    /\ files = EmptyMap
    /\ prompts = EmptyMap
    /\ evaluations = EmptyMap
    /\ errors = <<>>
    /\ fs = EmptyMap
    /\ faults = 0
    /\ wrote = EmptyMap
    /\ fs0 = EmptyMap
    /\ mtrace = <<>>
    /\ hist = <<>>
    /\ registry = MODEL_PROFILES
    /\ cm = NoManager
    /\ ret = NoCall
    /\ ev \in evaluated
    /\ heap \in held
    /\ calls = <<>>

\* a process in which no evaluator is exercised on its own
InitWith(cfgs, nameLists, styleLists, forces, budget, errs, found, findings) ==
    InitProgram(cfgs, nameLists, styleLists, forces, budget, errs, found, findings,
                {NoEvaluation}, {<<>>})

Ada == <<"A", "b">>

AdaSpaced == <<"a", " ", "b">>

Blank == <<" ">>

SubjectNames == {Ada, AdaSpaced, Blank}

InputStyles == {"BW", "Color", "Oil"}

ValidStyleLists(n) == {<<>>} \cup UNION {[1..k -> {"BW", "Color"}] : k \in n..n}

\* one generate_portrait call over up to MaxStyles styles run side by side
Init == InitWith({BasicCfg, AdvancedCfg(DefaultAttempts)},
                 SeqsUpTo({Ada, Blank}, 1), SeqsUpTo(InputStyles, MaxStyles), {FALSE},
                 MaxFaults, {ShortErr}, {0, MaxRefs}, {CleanFinding})

\* one style, every generator configuration, every attempt may fail
InitRetry == InitWith(Configs, SeqsUpTo({Ada}, 1), ValidStyleLists(1), BOOLEAN,
                      MaxAttemptsBound + 1, BackendErrors, 0..MaxRefs,
                      {CleanFinding, IssueFinding})

\* generate_batch over up to MaxBatch names, one style each; the reference
\* search has no credentials and finds nothing
InitBatch == InitWith({BasicCfg, AdvancedCfg(1)}, SeqsUpTo(SubjectNames, MaxBatch),
                      {<<"BW">>}, BOOLEAN, MaxFaults, {ShortErr}, {0}, {CleanFinding})

\* the styles list repeated up to n entries: BW, Sepia, Color, Painting, BW, ...
CycledStyles(n) == [i \in 1..n |-> STYLES[((i - 1) % Len(STYLES)) + 1]]

\* one call of the parallel generator with more styles than pool threads and
\* collaborators that do not fail
InitPool == InitWith({AdvancedCfg(1)}, SeqsUpTo({Ada}, 1),
                     {CycledStyles(n) : n \in 1..MaxPoolStyles}, {FALSE}, 0, {ShortErr}, {0},
                     {CleanFinding})

\* one call of the parallel generator for two styles, each of which may fail
InitOrder == InitWith({AdvancedCfg(1)}, SeqsUpTo({Ada}, 1), {<<"BW", "Sepia">>}, {FALSE},
                      MaxFaults + 1, {ShortErr}, {0}, {CleanFinding})

\* ------------------------------------------------ the validator's findings
Affirmed == <<"c", "o", "r", "r", "e", "c", "t">>

Denied == <<"i", "n", "c", "o", "r", "r", "e", "c", "t">>

\* words a grounded answer is made of
Vocabulary == {
    <<"c", "o", "r", "r", "e", "c", "t">>,
    <<"i", "n", "c", "o", "r", "r", "e", "c", "t">>,
    <<"Y", "e", "s">>,
    <<"N", "o">>,
    <<"k", "n", "o", "w", "n">>,
    <<"m", "a", "y", "b", "e">>,
    <<"v", "e", "r", "i", "f", "i", "e", "d">>,
    <<"w", "r", "o", "n", "g">>}

RECURSIVE JoinWords(_)
JoinWords(ws) ==
    IF ws = <<>> THEN <<>>
    ELSE IF Len(ws) = 1 THEN ws[1]
    ELSE ws[1] \o <<" ">> \o JoinWords(Tail(ws))

\* the answers of up to n words, the empty answer among them
Responses(n) == {JoinWords(ws) : ws \in SeqsUpTo(Vocabulary, n)}

\* what the grounded client can do over the queries of _fact_check_subject
\* (birth year, death year if the subject has one, era): answer them all, or
\* raise after answering some
Facts ==
    {NoFactCheck, [mode |-> "unavailable", responses |-> <<>>]}
        \cup {[mode |-> "answers", responses |-> r] :
                 r \in UNION {[1..k -> {Affirmed, Denied}] : k \in (FactQueries - 1)..FactQueries}}
        \cup {[mode |-> "raised", responses |-> r] :
                 r \in SeqsUpTo({Affirmed, Denied}, FactQueries - 1)}

\* every count of issues and warnings with every run of the fact check
CountedFindings == [issues : 0..MaxIssues, warnings : 0..MaxWarnings, fact : Facts]

\* a subject without death year whose birth-year query gets any answer
AnsweredFindings ==
    {[issues |-> 0, warnings |-> 0,
      fact |-> [mode |-> "answers", responses |-> <<r, Affirmed>>]] : r \in Responses(MaxWords)}

\* the names of up to n characters: letters of both cases, an accented
\* letter, the space and the hyphen
NameChars == {"a", "A", "é", " ", "-"}

Names(n) == SeqsUpTo(NameChars, n)

\* generate_batch over one or two such names, one style, nothing forced,
\* collaborators that do not fail
InitNames == InitWith({BasicCfg, AdvancedCfg(1)},
                      {<<>>} \cup {<<n>> : n \in Names(MaxNameLen)}
                          \cup {<<n, m>> : n \in Names(MaxNameLen), m \in Names(MaxNameLen)},
                      {<<"BW">>}, {FALSE}, 0, {ShortErr}, {0}, {CleanFinding})

\* one call of the enhanced generator for one style with working collaborators
\* and a validator that may find anything
InitPreflight == InitWith({AdvancedCfg(1)}, SeqsUpTo({Ada}, 1), {<<"BW">>}, {FALSE}, 0,
                          {ShortErr}, {0}, CountedFindings \cup AnsweredFindings)

Next ==
    \/ BatchEmpty
    \/ BatchNext
    \/ BatchDone
    \/ Research
    \/ FindReferences
    \/ Submit
    \/ Complete
    \/ \E w \in DOMAIN wk : WPrepare(w)
    \/ \E w \in DOMAIN wk : WAttempt(w)
    \/ \E w \in DOMAIN wk : WEvaluate(w)
    \/ \E w \in DOMAIN wk : Collect(w)

Spec == Init /\ [][Next]_vars

SpecRetry == InitRetry /\ [][Next]_vars

SpecBatch == InitBatch /\ [][Next]_vars

SpecPool == InitPool /\ [][Next]_vars

SpecPreflight == InitPreflight /\ [][Next]_vars

SpecNames == InitNames /\ [][Next]_vars

SpecOrder == InitOrder /\ [][Next]_vars

\* the process after start, before any portrait is asked for: the callers of
\* the registry and of the compatibility manager
InitRegistry == InitWith({BasicCfg}, {<<>>}, {<<>>}, {FALSE}, 0, {ShortErr}, {0}, {CleanFinding})

NextRegistry ==
    \/ GetModelProfile
    \/ GetOptimalConfigForModel
    \/ SettingsGetModelProfile
    \/ NewCompatibilityManager
    \/ SupportsFeature
    \/ GetGenerationConfig
    \/ GetEvaluationConfig
    \/ AdaptSettingsForModel

SpecRegistry == InitRegistry /\ [][NextRegistry]_vars

\* the images handed to an evaluator, by what the checks read from them
Images ==
    [width_ok : BOOLEAN, height_ok : BOOLEAN, mode : {"RGB", "RGBA", "L"}, content : BOOLEAN,
     overlay : BOOLEAN,
     brightness : {"40..200", "20..220", "outside"},
     contrast : {">150", ">100", ">50", "flat"},
     detail : {">0.3", ">0.15", "low"},
     artifacts : {"<0.05", "<0.1", "many"},
     grayscale_pixels : {0, 100}, warm_pixels : {0}, color_pixels : {0}]

\* the images of the right size and content whose visual criteria all score best
SharpImages ==
    {image \in Images : /\ image.width_ok /\ image.height_ok /\ image.content
                        /\ image.brightness = "40..200" /\ image.contrast = ">150"
                        /\ image.detail = ">0.3" /\ image.artifacts = "<0.05"
                        /\ image.grayscale_pixels = 100}

\* what the model answers to one query: it raises (or a score does not parse),
\* or its text carries some of the labelled scores and a list of issues
RaisedReply == [raised |-> TRUE, scores |-> EmptyMap, issues |-> {}]

Replies(labelled) ==
    {[raised |-> FALSE, scores |-> scores, issues |-> issues] :
        scores \in labelled, issues \in {{"None"}, {"blurred"}}} \cup {RaisedReply}

PassReplies ==
    Replies({quality @@ style @@ ("ACCURACY_SCORE" :> 100) :
                quality \in {EmptyMap, "QUALITY_SCORE" :> 30, "QUALITY_SCORE" :> 100},
                style \in {EmptyMap, "STYLE_SCORE" :> 100}})

CoherenceReplies ==
    Replies({EmptyMap, "COHERENCE_SCORE" :> 30, "COHERENCE_SCORE" :> 100})

FactReplies == Replies({EmptyMap, "ACCURACY_SCORE" :> 100})

NoReplies == [passes |-> <<>>, coherence |-> RaisedReply, facts |-> RaisedReply]

\* evaluators that never query the model, on every image; and the evaluator
\* of the default profile, with and without a client, on the sharp images
Evaluations ==
    [profile : {"None", LEGACY_MODEL, FLASH_MODEL}, client : {FALSE}, image : Images,
     style : {"BW", "Painting"}, replies : {NoReplies}]
    \cup [profile : {DEFAULT_MODEL}, client : {FALSE}, image : SharpImages,
          style : {"BW"}, replies : {NoReplies}]
    \cup [profile : {DEFAULT_MODEL}, client : {TRUE}, image : SharpImages, style : {"BW"},
          replies : [passes : [1..2 -> PassReplies], coherence : CoherenceReplies,
                     facts : FactReplies]]

InitEvaluator ==
    InitProgram({BasicCfg}, {<<>>}, {<<>>}, {FALSE}, 0, {ShortErr}, {0}, {CleanFinding},
                Evaluations, {<<>>})

NextEvaluator ==
    \/ QualityEvaluatePortrait
    \/ EnhancedEvaluatePortrait

SpecEvaluator == InitEvaluator /\ [][NextEvaluator]_vars

\* the images a caller holds before any transform: two RGB images and one L
\* image of two pixels each
InputImages ==
    {[mode |-> "RGB", pixels |-> <<<<200, 100, 50>>, <<10, 20, 30>>>>],
     [mode |-> "RGB", pixels |-> <<<<0, 0, 0>>, <<255, 255, 255>>>>],
     [mode |-> "L", pixels |-> <<100, 200>>]}

InitImages ==
    InitProgram({BasicCfg}, {<<>>}, {<<>>}, {FALSE}, 0, {ShortErr}, {0}, {CleanFinding},
                {NoEvaluation}, {<<image>> : image \in InputImages})

NextImages ==
    \/ ConvertToBw
    \/ ConvertToSepia

SpecImages == InitImages /\ [][NextImages]_vars

\* WF: a submitted task is eventually run by a pool thread and every blocking
\* call (backend, filesystem) eventually returns or raises
FairSpecRetry == InitRetry /\ [][Next]_vars /\ WF_vars(Next)

\* ------------------------------------------------------------------ claims
Failed(me) == me.res.error # None

PipelinesOf(h, style) == {w \in DOMAIN h.workers : h.workers[w].style = style}

ValidCall(k) == ~InvalidName(results[k].subject) /\ ~InvalidStyles(req.styles)

\* research, generation or evaluation failed in call k
StageFailed(k) == ~hist[k].researched \/ \E w \in DOMAIN hist[k].workers : Failed(hist[k].workers[w])

EvaluationRaised(me) ==
    /\ Failed(me)
    /\ me.trace # <<>>
    /\ me.trace[Len(me.trace)] = "evaluate"

\* C3: when scoring a style raises after its image file was generated, the
\* style gets a failed evaluation and its file is still listed in files
C3_EvaluationFailureKeepsFile ==
    \A k \in DOMAIN results :
      \A w \in DOMAIN hist[k].workers :
        LET me == hist[k].workers[w]
        IN  (EvaluationRaised(me) /\ ImagePath(results[k].subject, me.style) \in DOMAIN hist[k].after)
              => /\ me.style \in DOMAIN results[k].evaluation
                 /\ ~me.res.evaluation.passed
                 /\ me.style \in DOMAIN results[k].files

\* the researcher raised in call k
ResearchFailed(k) == ~hist[k].researched /\ "research" \in Range(hist[k].mtrace)

\* every style pipeline of call k ran and none failed
PipelinesSucceeded(k) ==
    /\ hist[k].researched
    /\ DOMAIN hist[k].workers # {}
    /\ \A w \in DOMAIN hist[k].workers : ~Failed(hist[k].workers[w])

\* C4: generate_batch returns one result per subject name, in input order; a
\* subject whose research fails gets an entry with success = FALSE, the
\* subjects after it are still processed, and every subject whose own
\* pipeline succeeds is marked success = TRUE
C4_BatchIsolation ==
    /\ Len(results) = idx - 1
    /\ mpc = "done" => Len(results) = Len(req.names)
    /\ \A k \in DOMAIN results :
         /\ results[k].subject = req.names[k]
         /\ ResearchFailed(k) => ~results[k].success
         /\ PipelinesSucceeded(k) => results[k].success

\* a finished batch of three subjects, the second one's research failed
C4_Witness ==
    /\ mpc = "done"
    /\ Len(req.names) = 3
    /\ Len(results) = 3
    /\ ResearchFailed(2)
    /\ results[1].success /\ ~results[2].success /\ results[3].success
    /\ PipelinesSucceeded(1) /\ PipelinesSucceeded(3)

\* every style pipeline of the running call and of the returned calls
Pipelines ==
    {wk[w] : w \in DOMAIN wk}
        \cup UNION {{hist[k].workers[w] : w \in DOMAIN hist[k].workers} : k \in DOMAIN hist}

Terminal(me) == me.pc \in {"finished", "collected"}

\* the generation loop was left through "return image_path, prompt_path"
Acquired(me) == Len(me.sent) = Len(me.errs) + 1 /\ me.pc # "attempt"

\* every pass of the generation loop raised
Exhausted(me) == Terminal(me) /\ me.sent # <<>> /\ Len(me.errs) = Len(me.sent)

\* the bound, the result and the error of one pipeline whose files are in f
RetryBounded(me, name, f) ==
    /\ Count(me.trace, "backend") <= cfg.max_attempts
    /\ Count(me.trace, "backend") = Len(me.sent)
    /\ Acquired(me) =>
         /\ ImagePath(name, me.style) \in DOMAIN f
         /\ f[ImagePath(name, me.style)].data = me.sent[Len(me.sent)]
    /\ Exhausted(me) =>
         /\ Len(me.sent) = cfg.max_attempts
         /\ me.res.error = WrapPortrait(me.style, WrapVersion(me.style, me.errs[Len(me.errs)]))

C5_RetrySafe ==
    /\ \A w \in DOMAIN wk : RetryBounded(wk[w], subject_data, fs)
    /\ \A k \in DOMAIN hist :
         \A w \in DOMAIN hist[k].workers :
           RetryBounded(hist[k].workers[w], results[k].subject, hist[k].after)

InAcquisition == \E w \in DOMAIN wk : wk[w].pc = "attempt"

\* C5: a pipeline calls the image backend at most max_generation_attempts
\* times, once per attempt; a pipeline in the generation loop eventually
\* leaves it; it leaves it with the image of the successful attempt saved, or,
\* every attempt having failed, after exactly max_generation_attempts calls
\* with an error that carries the last attempt's error
C5_BoundedRetry == []C5_RetrySafe /\ (InAcquisition ~> ~InAcquisition)

\* a pipeline allowed more than one attempt that gave up after the last one
C5_Witness ==
    \E me \in Pipelines :
      /\ cfg.max_attempts >= 2
      /\ Exhausted(me)
      /\ Count(me.trace, "backend") = cfg.max_attempts
      /\ me.errs[1] # me.errs[Len(me.errs)]
      /\ me.res.error = WrapPortrait(me.style, WrapVersion(me.style, me.errs[Len(me.errs)]))

OnceStages == {"compose", "preflight", "evaluate"}

PostStages == {"transform", "overlay", "save"}

IsPrefix(prev, next) == Len(prev) <= Len(next) /\ SubSeq(next, 1, Len(prev)) = prev

\* prev is the end of next
IsSuffix(prev, next) ==
    Len(prev) <= Len(next) /\ SubSeq(next, Len(next) - Len(prev) + 1, Len(next)) = prev

\* C7 as stated: after a failed attempt that is not the last one, with
\* smart-retry the next prompt is the previous prompt followed by a refinement
\* block, without smart-retry it is the previous prompt
C7_RefinementAppended ==
    \A me \in Pipelines :
      \A i \in 1..(Len(me.sent) - 1) :
        IF cfg.smart_retry
        THEN Len(me.sent[i + 1]) > Len(me.sent[i]) /\ IsPrefix(me.sent[i], me.sent[i + 1])
        ELSE me.sent[i + 1] = me.sent[i]

\* C7 amended: after a failed attempt that is not the last one, with
\* smart-retry the next prompt is a refinement block followed by the previous
\* prompt, the block holding the first ErrTruncLen characters of the failed
\* attempt's error; without smart-retry it is the previous prompt
C7_RefinementPrepended ==
    \A me \in Pipelines :
      \A i \in 1..(Len(me.sent) - 1) :
        LET prev == me.sent[i]
            next == me.sent[i + 1]
            block == SubSeq(next, 1, Len(next) - Len(prev))
        IN  IF cfg.smart_retry
            THEN /\ Len(next) > Len(prev)
                 /\ IsSuffix(prev, next)
                 /\ Len(block) <= ErrTruncLen + 2
                 /\ SubSeq(block, 2, Len(block) - 1)
                      = SubSeq(me.errs[i], 1, Min(Len(me.errs[i]), ErrTruncLen))
            ELSE next = prev

\* a smart-retry pipeline whose first attempt failed with an error longer than ErrTruncLen
C7_Witness ==
    \E me \in Pipelines :
      /\ cfg.smart_retry
      /\ Len(me.sent) >= 2
      /\ Len(me.errs[1]) > ErrTruncLen
      /\ IsSuffix(me.sent[1], me.sent[2])
      /\ me.sent[2] # me.sent[1]

\* call k repeats, without force_regenerate, the earlier successful call j
Repeat(j, k) ==
    /\ j < k
    /\ results[j].subject = results[k].subject
    /\ results[j].success
    /\ Range(req.styles) \subseteq DOMAIN results[j].files
    /\ ~req.force

\* call k made no image-backend call
BackendFree(k) ==
    \A w \in DOMAIN hist[k].workers : "backend" \notin Range(hist[k].workers[w].trace)

\* call k left the image file of style s as it found it
FileKept(k, s) ==
    LET p == ImagePath(results[k].subject, s)
    IN  /\ p \in DOMAIN hist[k].before
        /\ p \in DOMAIN hist[k].after
        /\ hist[k].after[p] = hist[k].before[p]

MemoryObjects == {r \in DOMAIN wrote : r.dir = "mem"}

\* the files written during the running call
FileResources == {r \in DOMAIN wrote : r.dir # "mem"}

\* the running call has handed its styles to more than one pool worker
ParallelWorkers == cfg.variant = "enhanced" /\ Cardinality(DOMAIN wk) >= 2

\* C9: while the style workers of a call run side by side no worker writes an
\* in-memory object that the other workers hold a reference to
C9_NoSharedMemoryWrites ==
    ParallelWorkers => \A r \in MemoryObjects : wrote[r] = {}

DistinctStyles == \A v, w \in DOMAIN req.styles : v # w => req.styles[v] # req.styles[w]

\* C10: of the resources the side-by-side style workers of a call touch, only
\* the output directory is touched by more than one of them, and no file is
\* written by two of them
C10_NoWriteContention ==
    (ParallelWorkers /\ DistinctStyles) =>
        /\ \A r \in FileResources : Cardinality(wrote[r]) <= 1
        /\ Cardinality(UNION {wrote[r] : r \in {x \in FileResources : x.dir # "out"}}) <= 1

\* C11: at no point of a generate_portrait call are more than
\* min(4, number of requested styles) style pipelines executing
C11_PoolBound ==
    /\ Cardinality(Running) <= PoolCap
    /\ Cardinality(Running) <= Len(req.styles)

\* five styles requested: four pipelines execute while the fifth waits for a thread
C11_Witness ==
    /\ Len(req.styles) > PoolCap
    /\ Cardinality(Running) = PoolCap
    /\ \E w \in DOMAIN wk : wk[w].pc = "queued"

\* position of a step in the order research, locate references, then the style pipelines
MainRank(step) ==
    CASE step = "research" -> 1
      [] step = "find_references" -> 2
      [] OTHER -> 3

\* position of a pipeline step in the order the claim gives
StageRank(stage) ==
    CASE stage = "skip" -> 0
      [] stage = "compose" -> 1
      [] stage = "preflight" -> 2
      [] stage = "save_prompt" -> 3
      [] stage = "download" -> 4
      [] stage = "backend" -> 5
      [] stage = "transform" -> 6
      [] stage = "overlay" -> 7
      [] stage = "save" -> 8
      [] OTHER -> 9

\* the reference download and the backend calls form the acquire stage
InAcquire(stage) == stage \in {"download", "backend"}

\* research ran once, before the reference search, both before any pipeline of the call
MainOrdered(mt, workers) ==
    /\ Count(mt, "research") <= 1
    /\ \A i, j \in DOMAIN mt : i < j => MainRank(mt[i]) < MainRank(mt[j])
    /\ DOMAIN workers # {} =>
         /\ "research" \in Range(mt)
         /\ (cfg.variant = "enhanced" /\ cfg.finder) => "find_references" \in Range(mt)

InAttempt(stage) == StageRank(stage) \in 4..8

\* positions of the pipeline's trace where a new pass of the generation loop begins
Restarts(me) ==
    {i \in 2..Len(me.trace) :
       InAttempt(me.trace[i - 1]) /\ InAttempt(me.trace[i])
         /\ StageRank(me.trace[i]) <= StageRank(me.trace[i - 1])}

CurNameOr(k) == IF k \in DOMAIN req.names THEN req.names[k] ELSE Ada

\* an empty or whitespace-only subject name, or a style outside the four styles
Malformed(name, styles) ==
    \/ \A i \in DOMAIN name : name[i] = " "
    \/ \E i \in DOMAIN styles : styles[i] \notin {"BW", "Sepia", "Color", "Painting"}

\* C14: a call with an empty or whitespace-only name or with a style outside
\* {BW, Sepia, Color, Painting} raises its validation error at once: no
\* research, no pipeline, no file written, one entry holding the validation
\* message and nothing run again; well-formed input raises nothing
C14_ValidationImmediate ==
    /\ Len(results) = idx - 1
    /\ Malformed(CurNameOr(idx), req.styles) => mtrace = <<>> /\ wk = NoWorkers
    /\ \A k \in DOMAIN results :
         IF Malformed(results[k].subject, req.styles)
         THEN /\ hist[k].raised
              /\ hist[k].mtrace = <<>>
              /\ hist[k].workers = NoWorkers
              /\ hist[k].after = hist[k].before
              /\ ~results[k].success
              /\ results[k].errors \in {<<EmptyNameErr>>, <<InvalidStylesErr>>}
         ELSE ~hist[k].raised

\* a call with a well-formed name, a valid style and an invalid style was refused
C14_Witness ==
    \E k \in DOMAIN results :
      /\ hist[k].raised
      /\ results[k].subject = Ada
      /\ Len(req.styles) = 2
      /\ req.styles[1] = "BW" /\ req.styles[2] = "Oil"
      /\ results[k].errors = <<InvalidStylesErr>>

\* C15: a pipeline whose pre-generation validation returned is_valid = FALSE
\* was not stopped by it: it wrote its prompt and went on to image
\* acquisition, where it calls the image backend like any other pipeline
C15_PreflightAdvisory ==
    \A me \in Pipelines :
      me.valid = "invalid" =>
        /\ Len(me.trace) >= 3
        /\ SubSeq(me.trace, 1, 3) = <<"compose", "preflight", "save_prompt">>
        /\ me.pc = "attempt" \/ "backend" \in Range(me.trace)
        /\ me.pc = "attempt" /\ me.attempt = 0 => me.prompt = BuildPrompt(subject_data, me.style)

\* a pipeline found invalid by the validation that generated and scored its image
C15_Witness ==
    \E me \in Pipelines :
      /\ me.valid = "invalid"
      /\ Terminal(me)
      /\ Acquired(me)
      /\ ~Failed(me)

\* ------------------------------------------------------------------- C16
\* pipelines of the current call on which validate was called
Validated == {w \in DOMAIN wk : wk[w].finding # NoFinding}

FailedFactChecks(w) ==
    Cardinality({i \in DOMAIN wk[w].validation.fact_check_results :
                    ~wk[w].validation.fact_check_results[i]})

Clamp(c) == IF c < 0 THEN 0 ELSE IF c > 100 THEN 100 ELSE c

\* C16 as stated: the confidence validate returns is 1.0 less 0.25 per blocking
\* issue the checks report, 0.05 per warning and exactly 0.15 per failed
\* fact-check, clamped to [0, 1] (in hundredths); is_valid is no blocking issue
\* and confidence above 0.5
C16_ConfidenceFormula ==
    \A w \in Validated :
        LET v == wk[w].validation
            f == wk[w].finding
        IN  /\ v.confidence = Clamp(100 - 25 * f.issues - 5 * f.warnings
                                        - 15 * FailedFactChecks(w))
            /\ v.is_valid = (f.issues = 0 /\ v.confidence > 50)

\* C16 amended: validate records every failed fact-check as a blocking issue
\* too, so the confidence is 1.0 less 0.25 per issue of the result, 0.05 per
\* warning and 0.15 per failed fact-check, clamped to [0, 1]; a failed
\* fact-check therefore costs 0.40 and makes the result invalid; 2 issues,
\* 1 warning and no failed fact-check give 0.45 and is_valid = false
C16_ConfidenceFormulaFailedChecksBlocking ==
    \A w \in Validated :
        LET v == wk[w].validation
            f == wk[w].finding
            failed == FailedFactChecks(w)
        IN  /\ v.issues = f.issues + failed
            /\ v.warnings = f.warnings
            /\ v.confidence = Clamp(100 - 25 * v.issues - 5 * v.warnings - 15 * failed)
            /\ v.confidence = Clamp(100 - 25 * f.issues - 5 * f.warnings - 40 * failed)
            /\ v.confidence \in 0..100
            /\ v.is_valid = (v.issues = 0 /\ v.confidence > 50)
            /\ (failed > 0 => ~v.is_valid)
            /\ (v.issues = 2 /\ v.warnings = 1 /\ failed = 0
                    => v.confidence = 45 /\ ~v.is_valid)

\* the checks found nothing, one fact-check failed: confidence 0.60, invalid
C16_Witness ==
    \E w \in Validated :
        /\ wk[w].finding.issues = 0
        /\ wk[w].finding.warnings = 0
        /\ FailedFactChecks(w) = 1
        /\ wk[w].validation.confidence = 60
        /\ ~wk[w].validation.is_valid
        /\ wk[w].pc = "collected"

\* ------------------------------------------------------------------- C17
\* the answers the fact check of pipeline w parsed, with the parsed values
ParsedAnswers(w) ==
    IF wk[w].finding.fact.mode \in {"answers", "raised"}
    THEN {<<wk[w].finding.fact.responses[i], wk[w].validation.fact_check_results[i]>> :
             i \in DOMAIN wk[w].finding.fact.responses}
    ELSE {}

Mentions(response, words) == \E word \in words : Contains(ResponseLower(response), word)

\* C17: the negative keywords are looked for before the positive ones, so an
\* answer saying "incorrect" is never read as verified although it contains
\* "correct"; an answer that is empty or has no recognised keyword is read as
\* verified
C17_NegativeBeforePositive ==
    \A w \in Validated : \A a \in ParsedAnswers(w) :
        /\ Mentions(a[1], {Denied}) => ~a[2]
        /\ Mentions(a[1], NegativeWords) => ~a[2]
        /\ a[1] = <<>> => a[2]
        /\ ~Mentions(a[1], NegativeWords \cup PositiveWords) => a[2]
        /\ (Mentions(a[1], PositiveWords) /\ ~Mentions(a[1], NegativeWords)) => a[2]

\* the birth-year answer was "Yes incorrect": a positive and a negative
\* keyword, read as not verified
C17_Witness ==
    \E w \in Validated : \E a \in ParsedAnswers(w) :
        /\ a[1] = <<"Y", "e", "s", " ", "i", "n", "c", "o", "r", "r", "e", "c", "t">>
        /\ ~a[2]
        /\ wk[w].pc = "collected"

\* ------------------------------------------------------------------- C18
Registered == DOMAIN MODEL_PROFILES

\* C18: no operation changes a field of a registry profile, obtaining a
\* profile with overrides included, so every lookup of a model name returns
\* the values the profile was defined with
C18_RegistryNeverMutated ==
    /\ registry = MODEL_PROFILES
    /\ (ret.op = "get_model_profile" /\ ret.out.raised = "")
           => ret.out.value = MODEL_PROFILES[ret.model]

\* ------------------------------------------------------------------- C19
Resolvers == {"get_model_profile", "get_optimal_config_for_model", "Settings.get_model_profile"}

C20_UnknownModelAllDisabled ==
    (cm # NoManager /\ cm.model_name \notin Registered) =>
        /\ cm.profile = "None"
        /\ ret.op \in {"supports_feature", "get_generation_config", "get_evaluation_config"}
               => ret.out.raised = ""
        /\ ret.op = "supports_feature" => ret.out.value = FALSE
        /\ ret.op = "get_generation_config" =>
               /\ ~ret.out.value.enable_pre_generation_checks
               /\ ~ret.out.value.enable_iterative_refinement
               /\ ~ret.out.value.enable_search_grounding
               /\ ~ret.out.value.enable_reference_images
               /\ ~ret.out.value.enable_smart_retry
               /\ ret.out.value.max_reference_images_to_use = 0
        /\ ret.op = "get_evaluation_config" =>
               /\ ~ret.out.value.use_holistic_reasoning
               /\ ~ret.out.value.autonomous_error_detection
               /\ ~ret.out.value.visual_coherence_checking
               /\ ~ret.out.value.enable_fact_checking

\* a manager built on the unknown model was asked for a feature the default
\* model has, and answered false
C20_Witness ==
    /\ cm.model_name = UnknownModel
    /\ ret.op = "supports_feature"
    /\ ret.feature = "google_search_grounding"
    /\ ret.out.value = FALSE
    /\ registry[DEFAULT_MODEL].capabilities["google_search_grounding"]

\* ------------------------------------------------------------------- C21
\* the quality threshold of the profile the manager holds, as it is now
Ceiling == registry[cm.profile].generation.quality_threshold

\* C21: adapt_settings_for_model never raises the quality threshold: for a
\* manager with a profile, a requested threshold above the profile's comes
\* back as the profile's, and any other requested threshold comes back as it
\* was asked for
C21_ThresholdOnlyLowered ==
    (ret.op = "adapt_settings_for_model" /\ cm.profile # "None"
        /\ "quality_threshold" \in DOMAIN ret.settings) =>
        LET requested == ret.settings["quality_threshold"]
            effective == ret.out.value["quality_threshold"]
        IN  /\ ret.out.raised = ""
            /\ effective <= requested
            /\ effective = IF requested > Ceiling THEN Ceiling ELSE requested

\* 0.95 was asked of the legacy model with its defined ceiling of 0.80
C21_Witness ==
    /\ ret.op = "adapt_settings_for_model"
    /\ cm.profile = LEGACY_MODEL
    /\ registry = MODEL_PROFILES
    /\ "quality_threshold" \in DOMAIN ret.settings
    /\ ret.settings["quality_threshold"] = 95
    /\ ret.out.value["quality_threshold"] = 80

\* ------------------------------------------------------------------- C22
\* the file a result reports for a style
ReportedFile(k, style) == results[k].files[style]

Skipped(k, style) ==
    \E w \in PipelinesOf(hist[k], style) : "skip" \in Range(hist[k].workers[w].trace)

\* C22 as stated: the file reported for (name, style) is named
\* sanitize(name) + "_" + style + ".png" and is on disk, and the pipeline skips
\* generation exactly when a file of that name existed before the call
C22_FileNamedBySanitize ==
    \A k \in DOMAIN results : \A style \in DOMAIN results[k].files :
        LET path == [dir |-> "out", base |-> SanitizeFilename(req.names[k]) \o <<"_", style>>,
                     ext |-> "png"]
        IN  /\ ReportedFile(k, style) = path
            /\ path \in DOMAIN hist[k].after
            /\ Skipped(k, style) = (path \in DOMAIN hist[k].before)

\* ------------------------------------------------------------------- C23
\* the reference-image copies downloaded during call k
Downloaded(k) == {r \in DOMAIN hist[k].wrote : r.dir = "refs"}

\* C23: once a subject's generation has finished, the download directory of
\* the reference finder no longer holds the files downloaded for it
C23_DownloadsCleanedUp ==
    \A k \in DOMAIN hist : \A r \in Downloaded(k) : r \notin DOMAIN hist[k].after

\* ------------------------------------------------------------------- C24
EnhancedReturned ==
    ret.op = "EnhancedQualityEvaluator.evaluate_portrait" /\ ret.out.raised = ""

\* C24: whenever the enhanced evaluator returns a result, passed is true
\* exactly when the result's overall_score is at least the quality threshold
\* of the evaluator's profile and the result's issues list is empty
C24_PassedIffOverallScoreAtThreshold ==
    EnhancedReturned =>
        (ret.out.value.passed <=>
            /\ AtLeast(OverallScore(ret.out.value.scores),
                       GetQualityThreshold(registry, ev))
            /\ ret.out.value.issues = {})

\* ------------------------------------------------------------------- C30
BasicReturned ==
    ret.op = "QualityEvaluator.evaluate_portrait" /\ ret.out.raised = ""

\* no image scores higher on any criterion of the verdict
Unbeaten(scores) ==
    \A image \in Images :
        /\ TechScore(CheckTechnicalRequirements(image)) <= scores["technical"]
        /\ CheckVisualQuality(image) <= scores["visual_quality"]
        /\ CheckHistoricalAccuracy(image) <= scores["historical_accuracy"]

\* C30: the pass verdict of the basic evaluator is reachable: some image
\* scores at least 0.95, 0.85 and 0.80 on the three criteria, so the
\* evaluation of an image that no image beats on any of them is a pass
C30_PassReachable ==
    (BasicReturned /\ Unbeaten(ret.out.value.scores)) => ret.out.value.passed

\* ------------------------------------------------------------------- C25
\* C25: the style transforms are pure, deterministic and stateless: a call
\* leaves the image it was given as it was, returns an image object other
\* than the one it was given, and two calls of the same transform with the
\* same parameter on images that hold the same pixels return the same pixels
C25_TransformsPure ==
    /\ \A i \in DOMAIN calls :
          /\ calls[i].left = calls[i].input
          /\ calls[i].returned # calls[i].image
    /\ \A i, j \in DOMAIN calls :
          (/\ calls[i].op = calls[j].op
           /\ calls[i].param = calls[j].param
           /\ calls[i].input = calls[j].input) => calls[i].output = calls[j].output

\* ------------------------------------------------------------------- C26
\* errors holds the message of a failed pipeline of the style
HasErrorEntry(r, style) ==
    \E i \in DOMAIN r.errors :
        /\ Len(r.errors[i]) >= 3
        /\ SubSeq(r.errors[i], 1, 3) = <<"Failed to generate ", style, " portrait: ">>

HasFailedEvaluation(r, style) == style \in DOMAIN r.evaluation /\ ~r.evaluation[style].passed

ListedClean(r, style) == style \in DOMAIN r.files /\ ~HasErrorEntry(r, style)

\* C26 as stated: in every result returned after research succeeded, each
\* requested style either is a key of files and has no error entry, or has an
\* error entry and a failed evaluation and is not a key of files
C26_ListedOrFailed ==
    \A k \in DOMAIN results :
      hist[k].researched =>
        \A style \in Range(req.styles) :
          ListedClean(results[k], style)
            # (/\ HasErrorEntry(results[k], style)
               /\ HasFailedEvaluation(results[k], style)
               /\ style \notin DOMAIN results[k].files)

\* the sequential generator had saved the style's image when scoring raised
SavedBeforeScoringRaised(k, style) ==
    /\ cfg.variant = "basic"
    /\ \E w \in PipelinesOf(hist[k], style) : EvaluationRaised(hist[k].workers[w])
    /\ ImagePath(results[k].subject, style) \in DOMAIN hist[k].after

\* C26 amended: in every result returned after research succeeded, each style
\* requested once either is a key of files and has no error entry, or has an
\* error entry and a failed evaluation and is a key of files only if the
\* sequential generator had saved its image when scoring raised
C26_ListedOrFailedUnlessSaved ==
    \A k \in DOMAIN results :
      hist[k].researched =>
        \A style \in Range(req.styles) :
          Count(req.styles, style) = 1 =>
            ListedClean(results[k], style)
              # (/\ HasErrorEntry(results[k], style)
                 /\ HasFailedEvaluation(results[k], style)
                 /\ style \in DOMAIN results[k].files => SavedBeforeScoringRaised(k, style))

\* a result of two styles: one listed without an error, the other with an
\* error entry, a failed evaluation and its saved file still listed
C26_Witness ==
    \E k \in DOMAIN results :
      /\ hist[k].researched
      /\ \E listed, failed \in Range(req.styles) :
           /\ Count(req.styles, listed) = 1 /\ Count(req.styles, failed) = 1
           /\ ListedClean(results[k], listed)
           /\ HasErrorEntry(results[k], failed)
           /\ HasFailedEvaluation(results[k], failed)
           /\ failed \in DOMAIN results[k].files

\* ------------------------------------------------------------------- C27
\* what the collector builds when the first n workers finish in the order in
\* which they were submitted
RECURSIVE CollectedInOrder(_, _)
CollectedInOrder(h, n) ==
    IF n = 0 THEN [files |-> EmptyMap, prompts |-> EmptyMap, evaluation |-> EmptyMap,
                   errors |-> <<>>]
    ELSE LET sofar == CollectedInOrder(h, n - 1)
             res == h.workers[n].res
         IN  [files |-> CollectFiles(cfg.variant, sofar.files, res, res.file),
              prompts |-> CollectFiles(cfg.variant, sofar.prompts, res, res.prompt),
              evaluation |-> CollectEvaluation(sofar.evaluation, res),
              errors |-> CollectErrors(sofar.errors, res)]

\* C27: the result of a parallel generation does not depend on the order in
\* which the style workers finish: whatever that order, files, prompts,
\* evaluation and the errors list are those of the run with the same per-style
\* outcomes in which the workers finish in the order of submission
C27_ResultIndependentOfCompletionOrder ==
    \A k \in DOMAIN results :
      (cfg.variant = "enhanced" /\ hist[k].researched) =>
        LET inorder == CollectedInOrder(hist[k], Len(hist[k].workers))
        IN  /\ results[k].files = inorder.files
            /\ results[k].prompts = inorder.prompts
            /\ results[k].evaluation = inorder.evaluation
            /\ results[k].errors = inorder.errors

\* ------------------------------------------------------------------- C28
PortraitFiles == {path \in DOMAIN fs : path.dir = "out" /\ path.ext = "png"}

SidecarOf(path) == [dir |-> path.dir, base |-> path.base \o <<"_prompt">>, ext |-> "md"]

\* C28: whenever a portrait file has been written, the prompt sidecar of its
\* subject and style exists and holds exactly the prompt text that was sent to
\* the image backend in the attempt that produced the saved image
C28_SidecarHoldsPromptSent ==
    \A path \in PortraitFiles :
        /\ SidecarOf(path) \in DOMAIN fs
        /\ fs[SidecarOf(path)].data = fs[path].data

\* ------------------------------------------------------------------- C29
\* the calls before call k that wrote the file
WritersBefore(k, path) == {j \in 1..(k - 1) : path \in DOMAIN hist[j].wrote}

\* C29: two different subject names never get the same output file for a
\* style, so a call that skips generation because the file exists never
\* reports a file that was generated for another subject
C29_NamesMapToDistinctFiles ==
    \A k \in DOMAIN results : \A style \in DOMAIN results[k].files :
        /\ \A j \in DOMAIN results :
              (req.names[j] # req.names[k] /\ style \in DOMAIN results[j].files)
                  => ReportedFile(j, style) # ReportedFile(k, style)
        /\ Skipped(k, style) =>
              \A j \in WritersBefore(k, ReportedFile(k, style)) : req.names[j] = req.names[k]

====
